---- MODULE Spec2Model ----
(***************************************************************************)
(* Gacha record aggregation of BeyondUID: merge_records, fetch_record,     *)
(* fetch_full_record (beyonduid_gachalog/get_gachalogs.py), the command    *)
(* sync_gachalog (beyonduid_gachalog/__init__.py) and the pity, the pool   *)
(* statistics and the pull numbers of beyonduid_gachalog/draw_img.py.      *)
(*                                                                         *)
(* A record is [seqId, gachaTs, poolId, rarity, isFree].  seqId and        *)
(* gachaTs are decimal strings in the program (seqId: str, gachaTs: str);  *)
(* a decimal string is modelled as its sequence of digits, so that "5" is  *)
(* <<5>> and "05" is <<0, 5>>: different strings, the same int().          *)
(***************************************************************************)
EXTENDS Integers, Sequences, FiniteSets, TLC

VARIABLES
    existing,       \* merge_records: the parameter existing
    new_records,    \* merge_records: the parameter new_records
    merge_out,      \* what merge_records(existing, new_records) returned
    merge_again,    \* what merge_records(merge_out.merged, new_records) returned
    merge_pc,       \* "input", "merged", "remerged"
    fetch,          \* one call of fetch_record against an arbitrary source
    src,            \* the record source: selector -> history, most recent first
    file,           \* PLAYER_PATH / platform_roleid / "gacha_logs.json"
    sync,           \* the locals of the running (or last) fetch_full_record
    draw_read,      \* what draw_gachalogs_img last got from reading the file
    items,          \* get_pity_per_pool: the parameter items
    pity_out,       \* what get_pity_per_pool(items) returned
    pity_pc,        \* "input", "done"
    stat,           \* the statistics of one pool header of draw_gachalogs_img
    pull,           \* one call of get_pull_number_in_pool
    heap,           \* the list objects of one call of merge_records
    other,          \* the locals of a second, concurrent fetch_full_record
    login,          \* one run of on_beyond_scan_login and the stored bindings
    attend,         \* one call of sign_in and the requests it has sent
    subs            \* the announcement subscriptions and the running handlers

mergeVars == <<existing, new_records, merge_out, merge_again, merge_pc>>

syncVars == <<src, file, sync, draw_read>>

pityVars == <<items, pity_out, pity_pc>>

restVars == <<stat, pull, heap, other>>

botVars == <<login, attend, subs>>

vars == <<mergeVars, fetch, syncVars, pityVars, restVars, botVars>>

----------------------------------------------------------------------------
(* Bounds of the model. *)

\* requests one call of fetch_record may send to a source that answers
\* every request alike
LoopRequests == 3

\* most records one sync may be handed for a category by a source that
\* answers with any page
MaxFetched == 3

\* longest list given to merge_records
MaxLen == 2

\* longest page an arbitrary source answers
PageLen == 2

\* page requests of one fetch_record call against an arbitrary source
MaxRequests == 2

\* pulls the player makes in all (both categories together)
MaxPulls == 4

\* pulls the player makes in all when pulls may land while a sync runs
LivePulls == 3

\* largest seqId of a selector's history served to one fetch_record call
HistoryMax == 4

\* largest page size of the source serving that history
MaxPageSize == 3

\* status polls of one scan login that find the scan still pending
MaxPolls == 2

\* replies one scan login receives while it waits for a choice or for the
\* confirmation
MaxReplies == 2

\* records per page of the well-behaved record source
PageSize == 2

----------------------------------------------------------------------------
(* Decimal strings and lists. *)

\* no value (Python's None, a variable not in use)
None == [none |-> TRUE]

\* no pool header, pull number, merge on list objects or second sync
RestIdle ==
    /\ stat = None
    /\ pull = None
    /\ heap = None
    /\ other = None

\* no command handler of the bot is being exercised
BotIdle ==
    /\ login = None
    /\ attend = None
    /\ subs = None

RECURSIVE ParseInt(_)
\* int(s) of a decimal string s, digit by digit
ParseInt(s) ==
    IF s = <<>> THEN 0
    ELSE ParseInt(SubSeq(s, 1, Len(s) - 1)) * 10 + s[Len(s)]

\* the lists over S of length 0..n
ListsUpTo(S, n) == UNION {[1..k -> S] : k \in 0..n}

Range(s) == {s[i] : i \in 1..Len(s)}

\* the key of  merged.sort(key=lambda x: int(x.seqId), reverse=True)
SeqKey(r) == ParseInt(r.seqId)

\* where a stable descending sort puts x among the already sorted s: after
\* every element whose key is >= the key of x (list.sort keeps the order of
\* equal keys, also with reverse=True)
InsertDesc(s, x) ==
    LET k == SeqKey(x)
        n == Cardinality({i \in 1..Len(s) : SeqKey(s[i]) >= k})
    IN  SubSeq(s, 1, n) \o <<x>> \o SubSeq(s, n + 1, Len(s))

RECURSIVE SortDescBySeq(_)
SortDescBySeq(s) ==
    IF s = <<>> THEN <<>>
    ELSE InsertDesc(SortDescBySeq(SubSeq(s, 1, Len(s) - 1)), s[Len(s)])

----------------------------------------------------------------------------
(* merge_records *)

RECURSIVE MergeLoop(_, _, _, _)
\* the for loop of merge_records over new_records[i..]
MergeLoop(ids, merged, count, rest) ==
    IF rest = <<>> THEN [ids |-> ids, merged |-> merged, new_count |-> count]
    ELSE LET record == Head(rest) IN
         IF record.seqId \notin ids
         THEN MergeLoop(ids \cup {record.seqId}, Append(merged, record),
                        count + 1, Tail(rest))
         ELSE MergeLoop(ids, merged, count, Tail(rest))

RECURSIVE MergeLoopNoCheck(_, _, _, _)
\* faulty variant: the loop without  if record.seqId not in existing_seq_ids
MergeLoopNoCheck(ids, merged, count, rest) ==
    IF rest = <<>> THEN [ids |-> ids, merged |-> merged, new_count |-> count]
    ELSE MergeLoopNoCheck(ids, Append(merged, Head(rest)), count + 1, Tail(rest))

merge_records_append_all(ex, new) ==
    LET r == MergeLoopNoCheck({ex[i].seqId : i \in 1..Len(ex)}, ex, 0, new)
    IN  [merged |-> SortDescBySeq(r.merged), new_count |-> r.new_count]

RECURSIVE MergeLoopNoAdd(_, _, _, _)
\* faulty variant: the loop without  existing_seq_ids.add(record.seqId)
MergeLoopNoAdd(ids, merged, count, rest) ==
    IF rest = <<>> THEN [ids |-> ids, merged |-> merged, new_count |-> count]
    ELSE LET record == Head(rest) IN
         IF record.seqId \notin ids
         THEN MergeLoopNoAdd(ids, Append(merged, record), count + 1, Tail(rest))
         ELSE MergeLoopNoAdd(ids, merged, count, Tail(rest))

merge_records_no_add(ex, new) ==
    LET r == MergeLoopNoAdd({ex[i].seqId : i \in 1..Len(ex)}, ex, 0, new)
    IN  [merged |-> SortDescBySeq(r.merged), new_count |-> r.new_count]

\* faulty variant: merged starts empty instead of as a copy of existing
merge_records_new_only(ex, new) ==
    LET r == MergeLoop({}, <<>>, 0, new)
    IN  [merged |-> SortDescBySeq(r.merged), new_count |-> r.new_count]

RECURSIVE MergeLoopCountAll(_, _, _, _)
\* faulty variant: new_count += 1 stands outside the if
MergeLoopCountAll(ids, merged, count, rest) ==
    IF rest = <<>> THEN [ids |-> ids, merged |-> merged, new_count |-> count]
    ELSE LET record == Head(rest) IN
         IF record.seqId \notin ids
         THEN MergeLoopCountAll(ids \cup {record.seqId}, Append(merged, record),
                                count + 1, Tail(rest))
         ELSE MergeLoopCountAll(ids, merged, count + 1, Tail(rest))

merge_records_count_all(ex, new) ==
    LET r == MergeLoopCountAll({ex[i].seqId : i \in 1..Len(ex)}, ex, 0, new)
    IN  [merged |-> SortDescBySeq(r.merged), new_count |-> r.new_count]

\* faulty variant: an incoming record takes the place of the existing
\* records of its seqId
merge_records_incoming_wins(ex, new) ==
    LET kept == SelectSeq(ex, LAMBDA r :
                    r.seqId \notin {new[i].seqId : i \in 1..Len(new)})
        r == MergeLoop({kept[i].seqId : i \in 1..Len(kept)}, kept, 0, new)
    IN  [merged |-> SortDescBySeq(r.merged), new_count |-> r.new_count]

merge_records(ex, new) ==
    LET existing_seq_ids == {ex[i].seqId : i \in 1..Len(ex)}
        r == MergeLoop(existing_seq_ids, ex, 0, new)
    IN  [merged |-> SortDescBySeq(r.merged), new_count |-> r.new_count]

\* merge_records is not being exercised on its own
MergeIdle ==
    /\ existing = <<>>
    /\ new_records = <<>>
    /\ merge_out = None
    /\ merge_again = None
    /\ merge_pc = "off"

----------------------------------------------------------------------------
(* get_pity_per_pool *)

\* getattr(item, "isFree", False)
IsFree(item) == IF "isFree" \in DOMAIN item THEN item.isFree ELSE FALSE

\* faulty variant: the sort key is int(x.seqId) alone
TsSeqGeqSeqOnly(a, b) == ParseInt(a.seqId) >= ParseInt(b.seqId)

\* faulty variant: the key is int(x.gachaTs) alone
TsSeqGeqTsOnly(a, b) == ParseInt(a.gachaTs) >= ParseInt(b.gachaTs)

\* key(a) >= key(b) for the key (int(x.gachaTs), int(x.seqId))
TsSeqGeq(a, b) ==
    \/ ParseInt(a.gachaTs) > ParseInt(b.gachaTs)
    \/ /\ ParseInt(a.gachaTs) = ParseInt(b.gachaTs)
       /\ ParseInt(a.seqId) >= ParseInt(b.seqId)

\* sorted(..., reverse=True) is stable: x goes after every element whose key
\* is >= its own
InsertDescTsSeq(s, x) ==
    LET n == Cardinality({i \in 1..Len(s) : TsSeqGeq(s[i], x)})
    IN  SubSeq(s, 1, n) \o <<x>> \o SubSeq(s, n + 1, Len(s))

RECURSIVE SortDescByTsSeq(_)
SortDescByTsSeq(s) ==
    IF s = <<>> THEN <<>>
    ELSE InsertDescTsSeq(SortDescByTsSeq(SubSeq(s, 1, Len(s) - 1)), s[Len(s)])

RECURSIVE PoolItems(_, _)
\* by_pool[pool_id]: the items of the pool in the order of the list
PoolItems(list, pool_id) ==
    IF list = <<>> THEN <<>>
    ELSE IF Head(list).poolId = pool_id
         THEN <<Head(list)>> \o PoolItems(Tail(list), pool_id)
         ELSE PoolItems(Tail(list), pool_id)

RECURSIVE PityLoopSkipFree(_)
\* faulty variant: a free item is skipped before its rarity is looked at
PityLoopSkipFree(sorted_items) ==
    IF sorted_items = <<>> THEN 0
    ELSE IF IsFree(Head(sorted_items)) THEN PityLoopSkipFree(Tail(sorted_items))
    ELSE IF Head(sorted_items).rarity = 6 THEN 0
    ELSE 1 + PityLoopSkipFree(Tail(sorted_items))

RECURSIVE PityLoop(_)
\* for item in sorted_items: stop at rarity 6, count the items not free
PityLoop(sorted_items) ==
    IF sorted_items = <<>> THEN 0
    ELSE IF Head(sorted_items).rarity = 6 THEN 0
    ELSE (IF ~IsFree(Head(sorted_items)) THEN 1 ELSE 0)
         + PityLoop(Tail(sorted_items))

get_pity_per_pool(list) ==
    [pool_id \in {list[i].poolId : i \in 1..Len(list)} |->
        PityLoop(SortDescByTsSeq(PoolItems(list, pool_id)))]

\* get_pity_per_pool is not being exercised on its own
PityIdle ==
    /\ items = <<>>
    /\ pity_out = None
    /\ pity_pc = "off"

----------------------------------------------------------------------------
(* fetch_record *)

RECURSIVE PageLoopStrict(_, _, _)
\* faulty variant: the early stop tests  int(record.seqId) < existing_max_seq_id
PageLoopStrict(records, page, existing_max_seq_id) ==
    IF page = <<>> THEN [records |-> records, should_stop |-> FALSE]
    ELSE IF ParseInt(Head(page).seqId) < existing_max_seq_id
         THEN [records |-> records, should_stop |-> TRUE]
         ELSE PageLoopStrict(Append(records, Head(page)), Tail(page),
                             existing_max_seq_id)

RECURSIVE PageLoopSkip(_, _, _)
\* faulty variant: a record at or below existing_max_seq_id is skipped
\* (continue) and the records behind it are still appended
PageLoopSkip(records, page, existing_max_seq_id) ==
    IF page = <<>> THEN [records |-> records, should_stop |-> FALSE]
    ELSE IF ParseInt(Head(page).seqId) <= existing_max_seq_id
         THEN [records |-> PageLoopSkip(records, Tail(page),
                                        existing_max_seq_id).records,
               should_stop |-> TRUE]
         ELSE PageLoopSkip(Append(records, Head(page)), Tail(page),
                           existing_max_seq_id)

RECURSIVE PageLoop(_, _, _)
\* for record in gacha_record_list.list: stop at the first record whose
\* int(seqId) <= existing_max_seq_id, append the others
PageLoop(records, page, existing_max_seq_id) ==
    IF page = <<>> THEN [records |-> records, should_stop |-> FALSE]
    ELSE IF ParseInt(Head(page).seqId) <= existing_max_seq_id
         THEN [records |-> records, should_stop |-> TRUE]
         ELSE PageLoop(Append(records, Head(page)), Tail(page),
                       existing_max_seq_id)

\* the locals of fetch_record when it sends its first request
FetchStart(existing_max_seq_id) ==
    [k |-> existing_max_seq_id, has_more |-> TRUE, seq_id |-> 0,
     records |-> <<>>, should_stop |-> FALSE, running |-> TRUE, requests |-> 1]

\* the cursor of the request fetch_record is waiting on: 0 is no seq_id
\* parameter (if seq_id > 0: params["seq_id"] = str(seq_id))
Cursor(f) == f.seq_id

\* faulty variant: the cursor is the seqId of the first record of the page
FetchTurnCursorFirst(f, page, hasMore) ==
    LET p == PageLoop(f.records, page, f.k) IN
    IF p.should_stop
    THEN [f EXCEPT !.records = p.records, !.should_stop = TRUE,
                   !.running = FALSE]
    ELSE IF page = <<>>
    THEN [f EXCEPT !.records = p.records, !.has_more = hasMore,
                   !.running = FALSE]
    ELSE [f EXCEPT !.records = p.records, !.has_more = hasMore,
                   !.seq_id = ParseInt(page[1].seqId),
                   !.running = hasMore,
                   !.requests = IF hasMore THEN @ + 1 ELSE @]

\* faulty variant: has_more is tested before the records of the page are
\* appended, so the records of the last page are lost
FetchTurnDropLast(f, page, hasMore) ==
    LET p == PageLoop(f.records, page, f.k) IN
    IF p.should_stop
    THEN [f EXCEPT !.records = p.records, !.should_stop = TRUE,
                   !.running = FALSE]
    ELSE IF page = <<>> \/ ~hasMore
    THEN [f EXCEPT !.has_more = hasMore, !.running = FALSE]
    ELSE [f EXCEPT !.records = p.records, !.has_more = hasMore,
                   !.seq_id = ParseInt(page[Len(page)].seqId),
                   !.running = TRUE,
                   !.requests = @ + 1]

\* one turn of  while has_more:  from the response to the next request, or
\* to the end of the loop (running = FALSE: fetch_record returns f.records)
FetchTurn(f, page, hasMore) ==
    LET p == PageLoop(f.records, page, f.k) IN
    IF p.should_stop
    THEN [f EXCEPT !.records = p.records, !.should_stop = TRUE,
                   !.running = FALSE]
    ELSE IF page = <<>>
    THEN [f EXCEPT !.records = p.records, !.has_more = hasMore,
                   !.running = FALSE]
    ELSE [f EXCEPT !.records = p.records, !.has_more = hasMore,
                   !.seq_id = ParseInt(page[Len(page)].seqId),
                   !.running = hasMore,
                   !.requests = IF hasMore THEN @ + 1 ELSE @]

----------------------------------------------------------------------------
(* The record source, the persisted file and fetch_full_record. *)

\* the members of CharacterGachaPoolType in the order  for pool_type in
\* CharacterGachaPoolType  visits them (the enumeration is in model.py)
CharacterGachaPoolType == <<"special", "standard">>

\* the selectors fetch_full_record fetches, in its order: every character
\* pool type, then the weapon endpoint
SelectorOrder == CharacterGachaPoolType \o <<"weapon">>

Selectors == Range(SelectorOrder)

Category(sel) == IF sel = "weapon" THEN "weapon" ELSE "char"

RECURSIVE ToDigits(_)
\* str(n) of an int n >= 0
ToDigits(n) == IF n < 10 THEN <<n>> ELSE Append(ToDigits(n \div 10), n % 10)

RECURSIVE Below(_, _)
\* the records of a history whose seqId is below the cursor, in order
Below(history, cursor) ==
    IF history = <<>> THEN <<>>
    ELSE IF ParseInt(Head(history).seqId) < cursor
         THEN <<Head(history)>> \o Below(Tail(history), cursor)
         ELSE Below(Tail(history), cursor)

\* the response of the record source to a request with this cursor (0: no
\* seq_id parameter): the next PageSize records, and whether more remain
Serve(history, cursor) ==
    LET rest == IF cursor > 0 THEN Below(history, cursor) ELSE history
        n == IF Len(rest) < PageSize THEN Len(rest) ELSE PageSize
    IN  [list |-> SubSeq(rest, 1, n), hasMore |-> Len(rest) > n]

\* the records of a category at the source
CategoryRecords(s, cat) ==
    UNION {Range(s[sel]) : sel \in {x \in Selectors : Category(x) = cat}}

\* the file is missing ("absent"), holds a whole document ("valid") or holds
\* the beginning of one ("partial": not valid JSON)
NoFile == [state |-> "absent", charList |-> <<>>, weaponList |-> <<>>]

PartialFile == [state |-> "partial", charList |-> <<>>, weaponList |-> <<>>]

Document(charList, weaponList) ==
    [state |-> "valid", charList |-> charList, weaponList |-> weaponList]

\* an exception leaving a function
Raised == [raised |-> TRUE]

\* faulty variant: json.JSONDecodeError is not caught
load_existing_gacha_data_raising(f) ==
    IF f.state = "absent" THEN None
    ELSE IF f.state = "valid" THEN f
    ELSE Raised

load_existing_gacha_data(f) ==
    IF f.state = "absent" THEN None
    ELSE IF f.state = "valid" THEN f
    ELSE None

\* the larger of two ints
Max2(a, b) == IF a >= b THEN a ELSE b

\* the smaller of two ints
Min2(a, b) == IF a <= b THEN a ELSE b

RECURSIVE get_max_seq_id_min(_)
\* faulty variant: min() for max()
get_max_seq_id_min(records) ==
    IF records = <<>> THEN 0
    ELSE IF Len(records) = 1 THEN ParseInt(records[1].seqId)
    ELSE Min2(ParseInt(Head(records).seqId), get_max_seq_id_min(Tail(records)))

RECURSIVE get_max_seq_id(_)
get_max_seq_id(records) ==
    IF records = <<>> THEN 0
    ELSE IF Len(records) = 1 THEN ParseInt(records[1].seqId)
    ELSE Max2(ParseInt(Head(records).seqId), get_max_seq_id(Tail(records)))

\* faulty variant: one maximum over both lists is given to every fetch
MaxForBoth(s, sel) == Max2(s.char_max_seq_id, s.weapon_max_seq_id)

\* existing_max_seq_id of the fetch of a selector
MaxFor(s, sel) ==
    IF Category(sel) = "char" THEN s.char_max_seq_id ELSE s.weapon_max_seq_id

\* no fetch_full_record has been called
SyncOff ==
    [pc |-> "idle", loaded |-> NoFile,
     existing_char_list |-> <<>>, existing_weapon_list |-> <<>>,
     char_max_seq_id |-> 0, weapon_max_seq_id |-> 0,
     sel |-> 1, f |-> None,
     fetch_record_char |-> <<>>, fetch_record_weapon |-> <<>>,
     merged_char_list |-> <<>>, merged_weapon_list |-> <<>>,
     new_char_count |-> 0, new_weapon_count |-> 0]

\* fetch_full_record is not being exercised
SyncIdle ==
    /\ src = [sel \in Selectors |-> <<>>]
    /\ file = NoFile
    /\ sync = SyncOff
    /\ draw_read = "none"

Running == sync.pc \in {"fetch", "close"}

Pulls ==
    Cardinality(CategoryRecords(src, "char"))
        + Cardinality(CategoryRecords(src, "weapon"))

\* the player pulls once in a pool: the source gets a record whose seqId is
\* the next of its category
NewPull(sel) ==
    /\ Pulls < MaxPulls
    /\ LET n == Cardinality(CategoryRecords(src, Category(sel))) + 1
           r == [seqId |-> ToDigits(n), gachaTs |-> ToDigits(n),
                 poolId |-> sel, rarity |-> 3, isFree |-> FALSE]
       IN  src' = [src EXCEPT ![sel] = <<r>> \o @]
    /\ UNCHANGED <<botVars, mergeVars, fetch, pityVars, restVars, file, sync, draw_read>>

\* fetch_full_record up to its first page request: load, the two maxima.
\* An exception out of load_existing_gacha_data would end the call there
\* ("load_error"); the function as written catches them all.
StartSync ==
    /\ ~Running
    /\ LET d == load_existing_gacha_data(file) IN
       IF d = Raised
       THEN sync' = [SyncOff EXCEPT !.pc = "load_error", !.loaded = file]
       ELSE LET chars == IF d = None THEN <<>> ELSE d.charList
                weapons == IF d = None THEN <<>> ELSE d.weaponList
                s == [SyncOff EXCEPT !.pc = "fetch", !.loaded = file,
                         !.existing_char_list = chars,
                         !.existing_weapon_list = weapons,
                         !.char_max_seq_id = get_max_seq_id(chars),
                         !.weapon_max_seq_id = get_max_seq_id(weapons)]
            IN  sync' = [s EXCEPT !.f = FetchStart(MaxFor(s, SelectorOrder[1]))]
    /\ UNCHANGED <<botVars, mergeVars, fetch, pityVars, restVars, src, file, draw_read>>

\* faulty variant: seq_id outlives the call, and the fetch of the next
\* selector starts from the cursor the last one ended with
AfterFetchKeepCursor(s, records) ==
    LET sel == SelectorOrder[s.sel]
        t == IF Category(sel) = "char"
             THEN [s EXCEPT !.fetch_record_char = @ \o records]
             ELSE [s EXCEPT !.fetch_record_weapon = records]
    IN  IF s.sel < Len(SelectorOrder)
        THEN [t EXCEPT !.sel = s.sel + 1,
                       !.f = [FetchStart(MaxFor(s, SelectorOrder[s.sel + 1]))
                                EXCEPT !.seq_id = s.f.seq_id]]
        ELSE [t EXCEPT !.pc = "close"]

\* fetch_full_record when fetch_record returned for the selector sync.sel
AfterFetch(s, records) ==
    LET sel == SelectorOrder[s.sel]
        t == IF Category(sel) = "char"
             THEN [s EXCEPT !.fetch_record_char = @ \o records]
             ELSE [s EXCEPT !.fetch_record_weapon = records]
    IN  IF s.sel < Len(SelectorOrder)
        THEN [t EXCEPT !.sel = s.sel + 1,
                       !.f = FetchStart(MaxFor(s, SelectorOrder[s.sel + 1]))]
        ELSE [t EXCEPT !.pc = "close"]

\* a page response arrives (status 200) for the pending request
FetchPage ==
    /\ sync.pc = "fetch"
    /\ LET resp == Serve(src[SelectorOrder[sync.sel]], Cursor(sync.f))
           g == FetchTurn(sync.f, resp.list, resp.hasMore)
       IN  sync' = IF g.running THEN [sync EXCEPT !.f = g]
                   ELSE AfterFetch([sync EXCEPT !.f = g], g.records)
    /\ UNCHANGED <<botVars, mergeVars, fetch, pityVars, restVars, src, file, draw_read>>

\* faulty variant: a failed page request saves what the earlier selectors gave
FetchFailSavingPartial ==
    /\ sync.pc = "fetch"
    /\ LET c == merge_records(sync.existing_char_list, sync.fetch_record_char)
       IN  /\ file' = Document(c.merged, sync.existing_weapon_list)
           /\ sync' = [SyncOff EXCEPT !.pc = "failed", !.loaded = sync.loaded,
                               !.sel = sync.sel]
    /\ UNCHANGED <<botVars, mergeVars, fetch, pityVars, restVars, src, draw_read>>

\* response.raise_for_status() raises: fetch_record and fetch_full_record
\* end with the exception
FetchFail ==
    /\ sync.pc = "fetch"
    /\ sync' = [SyncOff EXCEPT !.pc = "failed", !.loaded = sync.loaded,
                               !.sel = sync.sel]
    /\ UNCHANGED <<botVars, mergeVars, fetch, pityVars, restVars, src, file, draw_read>>

\* the task is cancelled while it waits (a page request, the sleep between
\* pages, http_client.aclose())
Cancel ==
    /\ Running
    /\ sync' = [SyncOff EXCEPT !.pc = "cancelled", !.loaded = sync.loaded,
                               !.sel = sync.sel]
    /\ UNCHANGED <<botVars, mergeVars, fetch, pityVars, restVars, src, file, draw_read>>

\* the two merge_records calls of fetch_full_record
Merged(s) ==
    LET c == merge_records(s.existing_char_list, s.fetch_record_char)
        w == merge_records(s.existing_weapon_list, s.fetch_record_weapon)
    IN  [s EXCEPT !.merged_char_list = c.merged,
                  !.merged_weapon_list = w.merged,
                  !.new_char_count = c.new_count,
                  !.new_weapon_count = w.new_count]

\* from the return of aclose() to the end: merge, open("w"), json.dump
MergeAndSave ==
    /\ sync.pc = "close"
    /\ LET s == Merged(sync) IN
       /\ sync' = [s EXCEPT !.pc = "done"]
       /\ file' = Document(s.merged_char_list, s.merged_weapon_list)
    /\ UNCHANGED <<botVars, mergeVars, fetch, pityVars, restVars, src, draw_read>>

\* the same, but json.dump stops part-way after open("w") truncated the file
\* (a write error, the process killed): the file keeps what was written
SaveInterrupted ==
    /\ sync.pc = "close"
    /\ sync' = [Merged(sync) EXCEPT !.pc = "save_failed"]
    /\ file' = PartialFile
    /\ UNCHANGED <<botVars, mergeVars, fetch, pityVars, restVars, src, draw_read>>

\* draw_gachalogs_img reads the file: no file, a document, or json.load raises
DrawRead ==
    /\ draw_read' = CASE file.state = "absent" -> "missing"
                      [] file.state = "valid" -> "document"
                      [] OTHER -> "error"
    /\ draw_read' # draw_read
    /\ UNCHANGED <<botVars, mergeVars, fetch, pityVars, restVars, src, file, sync>>

SyncInit ==
    /\ BotIdle
    /\ MergeIdle
    /\ fetch = None
    /\ SyncIdle
    /\ PityIdle
    /\ RestIdle

\* the player pulls only between syncs
Next ==
    \/ \E sel \in Selectors : ~Running /\ NewPull(sel)
    \/ StartSync
    \/ FetchPage
    \/ FetchFail
    \/ Cancel
    \/ MergeAndSave
    \/ SaveInterrupted
    \/ DrawRead

Spec == SyncInit /\ [][Next]_vars

\* what claim C6 says of one category once the sync has saved, where P is
\* the list loaded, k its maximum and N the source's records above k
IncrementalResult(cat, P, k, fetched, merged, new_count, saved) ==
    LET H == CategoryRecords(src, cat)
        N == {r \in H : ParseInt(r.seqId) > k}
    IN  H = Range(P) \cup N =>
            /\ Range(fetched) = N
            /\ Len(fetched) = Cardinality(N)
            /\ Range(merged) = Range(P) \cup N
            /\ Len(merged) = Cardinality(Range(P) \cup N)
            /\ \A i \in 1..(Len(merged) - 1) :
                  ParseInt(merged[i].seqId) > ParseInt(merged[i + 1].seqId)
            /\ new_count = Cardinality(N)
            /\ saved = merged

SyncResult ==
    /\ IncrementalResult("char", sync.existing_char_list, sync.char_max_seq_id,
                         sync.fetch_record_char, sync.merged_char_list,
                         sync.new_char_count, file.charList)
    /\ IncrementalResult("weapon", sync.existing_weapon_list,
                         sync.weapon_max_seq_id, sync.fetch_record_weapon,
                         sync.merged_weapon_list, sync.new_weapon_count,
                         file.weaponList)

\* C6: when the persisted list of a category holds P with maximum k and the
\* source serves P plus newer records N, a sync that saves has fetched
\* exactly N, has persisted P union N in descending order and reports |N|.
C6_IncrementalSync ==
    [][(sync.pc = "close" /\ sync'.pc = "done") => SyncResult']_vars

\* C6 witness: the scenario of the spec with other ids: two records
\* persisted, one newer record at the source, fetched alone, merged in front.
C6_Witness ==
    /\ sync.pc = "done"
    /\ Len(sync.existing_char_list) = 2
    /\ Len(sync.fetch_record_char) = 1
    /\ sync.new_char_count = 1
    /\ Len(file.charList) = 3
    /\ file.charList[1] = sync.fetch_record_char[1]

\* C7: the file is written only after the fetch of every selector has
\* returned; a sync that a failed request or a cancellation ended has left
\* the file as it loaded it.
C7_NoPartialSave ==
    sync.pc \in {"fetch", "close", "failed", "cancelled"} => file = sync.loaded

\* C7 witness: a request failed after the first character pool had been
\* fetched, with records at the source that the file does not hold.
C7_Witness ==
    /\ sync.pc = "failed"
    /\ sync.sel > 1
    /\ file.state = "valid"
    /\ Range(src[SelectorOrder[1]]) \ Range(file.charList) # {}

\* C8: no reader observes a half-written file, also when the save is
\* interrupted part-way.
C8_SaveAllOrNothing ==
    /\ file.state # "partial"
    /\ draw_read # "error"

\* C9: a missing or unparsable file never fails the sync: it goes on with
\* empty existing lists and both maxima 0, and a sync that completes has
\* replaced the file by a valid document holding all it fetched.
C9_LoadNeverFails ==
    /\ sync.pc # "load_error"
    /\ (sync.pc \in {"fetch", "close", "done", "save_failed"}
          /\ sync.loaded.state # "valid") =>
            /\ sync.existing_char_list = <<>>
            /\ sync.existing_weapon_list = <<>>
            /\ sync.char_max_seq_id = 0
            /\ sync.weapon_max_seq_id = 0
    /\ (sync.pc = "done" /\ sync.loaded.state # "valid") =>
            /\ file = Document(SortDescBySeq(sync.fetch_record_char),
                               SortDescBySeq(sync.fetch_record_weapon))
            /\ sync.new_char_count = Len(sync.fetch_record_char)
            /\ sync.new_weapon_count = Len(sync.fetch_record_weapon)

\* C9 witness: a sync that loaded a truncated file has completed and saved
\* a document with records of both categories.
C9_Witness ==
    /\ sync.pc = "done"
    /\ sync.loaded.state = "partial"
    /\ file.state = "valid"
    /\ file.charList # <<>>
    /\ file.weaponList # <<>>

----------------------------------------------------------------------------
(* SpecFetch: one fetch_record call; the source answers any page at all. *)

FetchSeqIds == {<<0>>, <<1>>, <<2>>, <<3>>}

FetchRecs ==
    [seqId : FetchSeqIds, gachaTs : {<<1>>}, poolId : {"standard"},
     rarity : {3}, isFree : {FALSE}]

\* the values of existing_max_seq_id tried
KnownMaxIds == {0, 1, 2}

FetchInit ==
    /\ BotIdle
    /\ MergeIdle
    /\ SyncIdle
    /\ PityIdle
    /\ RestIdle
    /\ \E k \in KnownMaxIds :
          fetch = [f |-> FetchStart(k), pc |-> "waiting", last |-> <<>>,
                   more |-> FALSE]

\* the response to the pending request arrives with status 200
FetchRespond ==
    /\ fetch.pc = "waiting"
    /\ \E page \in ListsUpTo(FetchRecs, PageLen), hasMore \in BOOLEAN :
          LET g == FetchTurn(fetch.f, page, hasMore) IN
          /\ g.running => g.requests <= MaxRequests
          /\ fetch' = [f |-> g,
                        pc |-> IF g.running THEN "waiting" ELSE "returned",
                        last |-> page, more |-> hasMore]
    /\ UNCHANGED <<botVars, mergeVars, syncVars, pityVars, restVars>>

\* response.raise_for_status() raises
FetchRaise ==
    /\ fetch.pc = "waiting"
    /\ fetch' = [fetch EXCEPT !.pc = "raised"]
    /\ UNCHANGED <<botVars, mergeVars, syncVars, pityVars, restVars>>

FetchNext == FetchRespond \/ FetchRaise

SpecFetch == FetchInit /\ [][FetchNext]_vars

\* C5: fetch_record never returns a record whose int(seqId) is <= the
\* knownMaxSequenceId it was given, whatever pages the source answers.
C5_EarlyStopCorrect ==
    fetch.pc = "returned" =>
        \A i \in 1..Len(fetch.f.records) :
            ParseInt(fetch.f.records[i].seqId) > fetch.f.k

\* C5 witness: a fetch that returned records after a page holding a record
\* equal to knownMaxSequenceId stopped it.
C5_Witness ==
    /\ fetch.pc = "returned"
    /\ fetch.f.should_stop
    /\ fetch.f.records # <<>>
    /\ \E i \in 1..Len(fetch.last) : ParseInt(fetch.last[i].seqId) = fetch.f.k

----------------------------------------------------------------------------
(* SpecMerge: merge_records on every pair of lists within the bounds. *)

\* seqId strings given to merge_records: "1", "2" and "02"
MergeSeqIds == {<<1>>, <<2>>, <<0, 2>>}

MergeRecs ==
    [seqId : MergeSeqIds, gachaTs : {<<1>>}, poolId : {"standard", "beginner"},
     rarity : {3}, isFree : {FALSE}]

MergeInit ==
    /\ BotIdle
    /\ fetch = None
    /\ SyncIdle
    /\ PityIdle
    /\ RestIdle
    /\ existing \in ListsUpTo(MergeRecs, MaxLen)
    /\ new_records \in ListsUpTo(MergeRecs, MaxLen)
    /\ merge_out = None
    /\ merge_again = None
    /\ merge_pc = "input"

Merge ==
    /\ merge_pc = "input"
    /\ merge_out' = merge_records(existing, new_records)
    /\ merge_pc' = "merged"
    /\ UNCHANGED <<botVars, existing, new_records, merge_again, fetch, syncVars, pityVars, restVars>>

Remerge ==
    /\ merge_pc = "merged"
    /\ merge_again' = merge_records(merge_out.merged, new_records)
    /\ merge_pc' = "remerged"
    /\ UNCHANGED <<botVars, existing, new_records, merge_out, fetch, syncVars, pityVars, restVars>>

MergeNext == Merge \/ Remerge

SpecMerge == MergeInit /\ [][MergeNext]_vars

SeqIdStrings(s) == {s[i].seqId : i \in 1..Len(s)}

\* C1: every sequenceId appears at most once in merge_records(A, B).merged,
\* for all A and B (also an A that holds a sequenceId twice, or "2" and "02").
C1_MergeDedup ==
    merge_pc # "input" =>
        \A i, j \in 1..Len(merge_out.merged) :
            i # j => SeqKey(merge_out.merged[i]) # SeqKey(merge_out.merged[j])

\* C2: merging new_records a second time into the merged list returns the
\* same merged list (contents and order) and new_count = 0.
C2_MergeIdempotent ==
    merge_pc = "remerged" =>
        /\ merge_again.merged = merge_out.merged
        /\ merge_again.new_count = 0

\* C2 witness: a second merge after a first one that added records and also
\* dropped an incoming record whose id was already present.
C2_Witness ==
    /\ merge_pc = "remerged"
    /\ merge_out.new_count > 0
    /\ merge_out.new_count < Len(new_records)
    /\ existing # <<>>

\* C3: merge_records(A, B).merged is strictly descending by int(seqId).
C3_MergeStrictlyDescending ==
    merge_pc # "input" =>
        \A i \in 1..(Len(merge_out.merged) - 1) :
            SeqKey(merge_out.merged[i]) > SeqKey(merge_out.merged[i + 1])

\* C4 (as claimed): new_count is the number of records r of B whose seqId is
\* not among the seqIds of A.
C4_NewCountPerRecord ==
    merge_pc # "input" =>
        merge_out.new_count =
            Cardinality({i \in 1..Len(new_records) :
                            new_records[i].seqId \notin SeqIdStrings(existing)})

\* C4 (amended): new_count is the number of distinct seqId strings of B that
\* are not seqId strings of A.
C4_NewCountDistinctIds ==
    merge_pc # "input" =>
        merge_out.new_count =
            Cardinality(SeqIdStrings(new_records) \ SeqIdStrings(existing))

\* C4 witness: B holds the same seqId twice, absent from A, and was merged.
C4_Witness ==
    /\ merge_pc = "merged"
    /\ \E i, j \in 1..Len(new_records) :
          /\ i < j
          /\ new_records[i].seqId = new_records[j].seqId
          /\ new_records[i].seqId \notin SeqIdStrings(existing)
    /\ merge_out.new_count = 1

----------------------------------------------------------------------------
(* SpecPity: get_pity_per_pool on lists of records with distinct seqIds.   *)

PitySeqIds == {<<1>>, <<2>>, <<3>>, <<4>>}

\* gachaTs "2" and "10": 2 < 10 as ints, "10" < "2" as strings
PityTs == {<<2>>, <<1, 0>>}

PityAttrs ==
    [gachaTs : PityTs, poolId : {"standard", "beginner"}, rarity : {3, 6},
     isFree : BOOLEAN]

\* one pool, no free pull
PityAttrsPlain ==
    [gachaTs : PityTs, poolId : {"standard"}, rarity : {3, 6},
     isFree : {FALSE}]

\* the lists of k records with pairwise distinct seqIds and these attributes
PityLists(k, attrs) ==
    {[i \in 1..k |->
        [seqId |-> ids[i], gachaTs |-> at[i].gachaTs, poolId |-> at[i].poolId,
         rarity |-> at[i].rarity, isFree |-> at[i].isFree]] :
            ids \in {f \in [1..k -> PitySeqIds] :
                        \A i, j \in 1..k : i # j => f[i] # f[j]},
            at \in [1..k -> attrs]}

\* every list of up to 3 records, and the lists of 4 records of one pool
\* without free pulls
PityInputs ==
    PityLists(0, PityAttrs) \cup PityLists(1, PityAttrs)
        \cup PityLists(2, PityAttrs) \cup PityLists(3, PityAttrs)
        \cup PityLists(4, PityAttrsPlain)

PityInit ==
    /\ BotIdle
    /\ MergeIdle
    /\ fetch = None
    /\ SyncIdle
    /\ RestIdle
    /\ items \in PityInputs
    /\ pity_out = None
    /\ pity_pc = "input"

ComputePity ==
    /\ pity_pc = "input"
    /\ pity_out' = get_pity_per_pool(items)
    /\ pity_pc' = "done"
    /\ UNCHANGED <<botVars, mergeVars, fetch, syncVars, restVars, items>>

PityNext == ComputePity

SpecPity == PityInit /\ [][PityNext]_vars

\* r is strictly more recent than q in (pullTimestampMs, sequenceId) order
MoreRecent(r, q) ==
    \/ ParseInt(r.gachaTs) > ParseInt(q.gachaTs)
    \/ /\ ParseInt(r.gachaTs) = ParseInt(q.gachaTs)
       /\ ParseInt(r.seqId) > ParseInt(q.seqId)

\* the pity claim C10 gives a pool of a set of records
ClaimedPity(recs, pool_id) ==
    LET pool == {r \in recs : r.poolId = pool_id}
        six == {r \in pool : r.rarity = 6}
    IN  IF six = {} THEN Cardinality({r \in pool : ~r.isFree})
        ELSE LET last == CHOOSE q \in six : \A r \in six \ {q} : MoreRecent(q, r)
             IN  Cardinality({r \in pool : ~r.isFree /\ MoreRecent(r, last)})

\* C10: get_pity_per_pool maps every pool of the list to the number of its
\* non-free records strictly more recent than its most recent rarity-6 record,
\* or to the number of all its non-free records when it has none.
C10_PityPerPool ==
    pity_pc = "done" =>
        /\ DOMAIN pity_out = {items[i].poolId : i \in 1..Len(items)}
        /\ \A pool_id \in DOMAIN pity_out :
              pity_out[pool_id] = ClaimedPity(Range(items), pool_id)

\* C10 witness: the pool sequence [3, 3, 6, 3] oldest to newest, all non-free,
\* given newest last, with int() order of the timestamps unlike their string
\* order; the result is 1.
C10_Witness ==
    /\ pity_pc = "done"
    /\ Len(items) = 4
    /\ \A i \in 1..3 : MoreRecent(items[i + 1], items[i])
    /\ <<items[1].rarity, items[2].rarity, items[3].rarity, items[4].rarity>>
         = <<3, 3, 6, 3>>
    /\ items[1].gachaTs = <<2>> /\ items[4].gachaTs = <<1, 0>>
    /\ pity_out = [pool_id \in {"standard"} |-> 1]

\* pity_by_pool.get(pool_id, 0)
PityGet(pity, pool_id) == IF pool_id \in DOMAIN pity THEN pity[pool_id] ELSE 0

\* the list without its i-th record
Without(list, i) == SubSeq(list, 1, i - 1) \o SubSeq(list, i + 1, Len(list))

\* the list as weapon records: the same records without the field isFree
AsWeapons(list) ==
    [i \in 1..Len(list) |->
        [seqId |-> list[i].seqId, gachaTs |-> list[i].gachaTs,
         poolId |-> list[i].poolId, rarity |-> list[i].rarity]]

\* C11: a free pull of rarity below 6 at any position leaves the pity of its
\* pool what it is without it; a free pull of rarity 6 gives the pity a
\* non-free pull of rarity 6 in its place gives; records without the field
\* isFree (weapon records) count as non-free.
C11_FreePulls ==
    pity_pc = "done" =>
        /\ \A i \in 1..Len(items) :
              (items[i].isFree /\ items[i].rarity < 6) =>
                  PityGet(get_pity_per_pool(Without(items, i)), items[i].poolId)
                      = pity_out[items[i].poolId]
        /\ \A i \in 1..Len(items) :
              (items[i].isFree /\ items[i].rarity = 6) =>
                  get_pity_per_pool([items EXCEPT ![i].isFree = FALSE]) = pity_out
        /\ get_pity_per_pool(AsWeapons(items))
              = get_pity_per_pool([i \in 1..Len(items) |->
                                      [items[i] EXCEPT !.isFree = FALSE]])

\* C11 witness: one pool, oldest to newest a non-free pull, a free pull of
\* rarity 6, a free pull of rarity 3 and a non-free pull: the pity is 1.
C11_Witness ==
    /\ pity_pc = "done"
    /\ Len(items) = 3
    /\ \A i \in 1..2 : MoreRecent(items[i + 1], items[i])
    /\ \A i \in 1..3 : items[i].poolId = "standard"
    /\ items[1].isFree /\ items[1].rarity = 6
    /\ items[2].isFree /\ items[2].rarity = 3
    /\ ~items[3].isFree /\ items[3].rarity = 3
    /\ pity_out["standard"] = 1

----------------------------------------------------------------------------
(* The statistics of the pool headers: _pool_stats_char,                   *)
(* _pool_stats_weapon and the average rate of _build_pool_header_layer     *)
(* (draw_img.py), as draw_gachalogs_img calls them.                        *)

\* the pool ids with  poolId.startswith("special_")
SpecialPools == {"special_1"}

\* the three predicates draw_gachalogs_img filters the character list by
Predicate(pool_type, c) ==
    CASE pool_type = "limited" -> c.poolId \in SpecialPools
      [] pool_type = "standard" -> c.poolId = "standard"
      [] pool_type = "beginner" -> c.poolId = "beginner"

\* faulty variant: the rarity-6 items are looked for among the non-free ones
pool_stats_char_six_of_non_free(char_list, pool_type) ==
    LET its == SelectSeq(char_list, LAMBDA c : Predicate(pool_type, c))
        non_free == SelectSeq(its, LAMBDA c : ~c.isFree)
        six == SelectSeq(non_free, LAMBDA c : c.rarity = 6)
    IN  [total |-> Len(its), free_count |-> Len(its) - Len(non_free),
         six_count |-> Len(six), non_free_count |-> Len(non_free)]

\* _pool_stats_char(char_list, predicate)
pool_stats_char(char_list, pool_type) ==
    LET its == SelectSeq(char_list, LAMBDA c : Predicate(pool_type, c))
        non_free == SelectSeq(its, LAMBDA c : ~c.isFree)
        six == SelectSeq(its, LAMBDA c : c.rarity = 6)
    IN  [total |-> Len(its), free_count |-> Len(its) - Len(non_free),
         six_count |-> Len(six), non_free_count |-> Len(non_free)]

\* _pool_stats_weapon(weapon_list)
pool_stats_weapon(weapon_list) ==
    [total |-> Len(weapon_list),
     six_count |-> Len(SelectSeq(weapon_list, LAMBDA w : w.rarity = 6))]

ZeroDivisionError == [raised |-> "ZeroDivisionError"]

\* the text "-" shown in place of an average
Sentinel == [text |-> "-"]

\* f"{a / b:.1f}" as a number of tenths: a / b raises on b = 0, the format
\* rounds to the nearest tenth and a tie to the even one (with b <= 4, as
\* here, a tie is a multiple of 1/4 and the float is exact)
FormatTenths(a, b) ==
    IF b = 0 THEN ZeroDivisionError
    ELSE LET q == (10 * a) \div b
             r == (10 * a) % b
         IN  [tenths |-> IF 2 * r > b THEN q + 1
                         ELSE IF 2 * r = b THEN q + (q % 2)
                         ELSE q]

\* faulty variant: the average is shown whenever there is a rarity-6 item
AverageSixOnly(n, six_n) ==
    IF six_n > 0 THEN FormatTenths(n, six_n) ELSE Sentinel

\* faulty variant: the average is computed without looking at the counts
AverageUnguarded(n, six_n) == FormatTenths(n, six_n)

\* if six_n > 0 and n > 0: avg_pity = n / six_n, shown with one decimal;
\* else "-".  n is non_free_n in a character header, total_n in the weapon one
Average(n, six_n) ==
    IF six_n > 0 /\ n > 0 THEN FormatTenths(n, six_n) ELSE Sentinel

\* _build_pool_header_layer: the numbers the header shows
HeaderChar(pool_type, pity_display, char_stats) ==
    LET avg == Average(char_stats.non_free_count, char_stats.six_count)
    IN  IF avg = ZeroDivisionError THEN ZeroDivisionError
        ELSE [pool_type |-> pool_type, pity_display |-> pity_display,
              total_n |-> char_stats.total, free_n |-> char_stats.free_count,
              non_free_n |-> char_stats.non_free_count,
              six_n |-> char_stats.six_count, avg_pity |-> avg]

HeaderWeapon(pity_display, weapon_list) ==
    LET stats == pool_stats_weapon(weapon_list)
        avg == Average(stats.total, stats.six_count)
    IN  IF avg = ZeroDivisionError THEN ZeroDivisionError
        ELSE [pool_type |-> "weapon", pity_display |-> pity_display,
              total_n |-> stats.total, six_n |-> stats.six_count,
              avg_pity |-> avg]

\* max(pity_weapon.values(), default=0) if pity_weapon else 0
MaxValue(pity) ==
    IF DOMAIN pity = {} THEN 0
    ELSE CHOOSE m \in {pity[k] : k \in DOMAIN pity} :
            \A k \in DOMAIN pity : pity[k] <= m

----------------------------------------------------------------------------
(* SpecStats: the statistics section of draw_gachalogs_img on a character  *)
(* list and a weapon list, then one pool header.                           *)

StatAttrs == [poolId : {"special_1", "standard"}, rarity : {3, 6}, isFree : BOOLEAN]

\* character lists of up to 3 records, pulled in the order of the list
StatCharLists ==
    {[i \in 1..Len(at) |->
        [seqId |-> <<i>>, gachaTs |-> <<i>>, poolId |-> at[i].poolId,
         rarity |-> at[i].rarity, isFree |-> at[i].isFree]] :
            at \in ListsUpTo(StatAttrs, 3)}

\* weapon lists of up to 2 records: a weapon record has no field isFree
StatWeaponLists ==
    {[i \in 1..Len(at) |->
        [seqId |-> <<i>>, gachaTs |-> <<i>>, poolId |-> "weapon_1",
         rarity |-> at[i]]] : at \in ListsUpTo({3, 6}, 2)}

PoolTypes == {"limited", "standard", "beginner"}

StatsInit ==
    /\ BotIdle
    /\ MergeIdle
    /\ fetch = None
    /\ SyncIdle
    /\ pity_out = None
    /\ pity_pc = "off"
    /\ pull = None
    /\ heap = None
    /\ other = None
    /\ items \in StatCharLists
    /\ \E weapon_list \in StatWeaponLists :
          stat = [pc |-> "input", weapon_list |-> weapon_list]

\* draw_gachalogs_img, from the pities to the statistics of the three
\* character pools
ComputeStats ==
    /\ stat # None
    /\ stat.pc = "input"
    /\ LET char_list == items
           limited_items == SelectSeq(char_list, LAMBDA c : c.poolId \in SpecialPools)
       IN  stat' = [pc |-> "stats",
                    weapon_list |-> stat.weapon_list,
                    pity_by_pool |-> get_pity_per_pool(char_list),
                    pity_weapon |-> get_pity_per_pool(stat.weapon_list),
                    pity_limited |-> PityLoop(SortDescByTsSeq(limited_items)),
                    limited_stats |-> pool_stats_char(char_list, "limited"),
                    standard_stats |-> pool_stats_char(char_list, "standard"),
                    beginner_stats |-> pool_stats_char(char_list, "beginner"),
                    header |-> None]
    /\ UNCHANGED <<botVars, mergeVars, fetch, syncVars, pityVars, pull, heap, other>>

\* the statistics draw_gachalogs_img hands to the header of a pool
StatsOf(s, pool_type) ==
    CASE pool_type = "limited" -> s.limited_stats
      [] pool_type = "standard" -> s.standard_stats
      [] pool_type = "beginner" -> s.beginner_stats

\* one call of _build_pool_header_layer for a character pool
BuildHeaderChar(pool_type) ==
    /\ stat # None
    /\ stat.pc = "stats"
    /\ stat' = [stat EXCEPT
            !.pc = "header",
            !.header = HeaderChar(pool_type,
                IF pool_type = "limited" THEN stat.pity_limited
                ELSE PityGet(stat.pity_by_pool, pool_type),
                StatsOf(stat, pool_type))]
    /\ UNCHANGED <<botVars, mergeVars, fetch, syncVars, pityVars, pull, heap, other>>

\* the call of _build_pool_header_layer for the weapon pool
BuildHeaderWeapon ==
    /\ stat # None
    /\ stat.pc = "stats"
    /\ stat' = [stat EXCEPT
            !.pc = "header",
            !.header = HeaderWeapon(MaxValue(stat.pity_weapon), stat.weapon_list)]
    /\ UNCHANGED <<botVars, mergeVars, fetch, syncVars, pityVars, pull, heap, other>>

StatsNext ==
    \/ ComputeStats
    \/ \E pool_type \in PoolTypes : BuildHeaderChar(pool_type)
    \/ BuildHeaderWeapon

SpecStats == StatsInit /\ [][StatsNext]_vars

\* the number of records of a list with a property
Count(list, Test(_)) == Cardinality({i \in 1..Len(list) : Test(list[i])})

\* C15: the four counts of _pool_stats_char are taken over exactly the
\* records satisfying the predicate: their number, the free ones, the
\* non-free ones, and those of rarity 6 free or not; so total = freeCount +
\* nonFreeCount and topRarityCount <= total.
C15_PoolStatsChar ==
    (stat # None /\ stat.pc # "input") =>
        \A pool_type \in PoolTypes :
            LET st == StatsOf(stat, pool_type)
                In(c) == Predicate(pool_type, c)
                Free(c) == In(c) /\ c.isFree
                NonFree(c) == In(c) /\ ~c.isFree
                Six(c) == In(c) /\ c.rarity = 6
            IN  /\ st.total = Count(items, In)
                /\ st.free_count = Count(items, Free)
                /\ st.non_free_count = Count(items, NonFree)
                /\ st.six_count = Count(items, Six)
                /\ st.total = st.free_count + st.non_free_count
                /\ st.six_count <= st.total

\* C15 witness: a pool with a free pull of rarity 6, a non-free pull and a
\* record of another pool.
C15_Witness ==
    /\ stat # None /\ stat.pc = "stats"
    /\ stat.standard_stats = [total |-> 2, free_count |-> 1, six_count |-> 1,
                              non_free_count |-> 1]
    /\ stat.limited_stats.total = 1
    /\ \E i \in 1..Len(items) :
          items[i].poolId = "standard" /\ items[i].isFree /\ items[i].rarity = 6

\* the header shows t tenths and t / 10 is nearest to n / d
NearestTenth(hdr, n, d) ==
    /\ DOMAIN hdr.avg_pity = {"tenths"}
    /\ LET e == 10 * n - hdr.avg_pity.tenths * d
       IN  2 * e <= d /\ -2 * e <= d

\* a header has been built and nothing was raised
HeaderBuilt == stat # None /\ stat.pc = "header" /\ stat.header # ZeroDivisionError

\* C16 as stated: the average shown is nonFreeCount / topRarityCount
\* whenever topRarityCount > 0, and the sentinel exactly when
\* topRarityCount = 0.
C16_AverageWheneverTopRarity ==
    (HeaderBuilt /\ stat.header.pool_type # "weapon") =>
        IF stat.header.six_n > 0
        THEN NearestTenth(stat.header, stat.header.non_free_n, stat.header.six_n)
        ELSE stat.header.avg_pity = Sentinel

\* C16 as the code has it: a character header shows nonFreeCount /
\* topRarityCount when topRarityCount > 0 and nonFreeCount > 0, and the
\* sentinel otherwise; the weapon header shows total / topRarityCount when
\* topRarityCount > 0, and the sentinel otherwise.
C16_AverageWhenBothPositive ==
    HeaderBuilt =>
        LET hdr == stat.header
            n == IF hdr.pool_type = "weapon" THEN hdr.total_n ELSE hdr.non_free_n
        IN  IF hdr.six_n > 0 /\ n > 0
            THEN NearestTenth(hdr, n, hdr.six_n)
            ELSE hdr.avg_pity = Sentinel

\* C16 witness: the header of a pool whose only pulls are free, one of them of
\* rarity 6, shows the sentinel.
C16_Witness ==
    /\ HeaderBuilt
    /\ stat.header.pool_type = "standard"
    /\ stat.header.six_n > 0
    /\ stat.header.non_free_n = 0
    /\ stat.header.avg_pity = Sentinel

\* C17: on an empty list, or a predicate no record satisfies, the counts of
\* _pool_stats_char and of _pool_stats_weapon are all 0, get_pity_per_pool
\* gives the empty mapping, and the header shows the sentinel and raises no
\* ZeroDivisionError.
C17_EmptyStatistics ==
    /\ (stat # None /\ stat.pc # "input") =>
          /\ \A pool_type \in PoolTypes :
                (\A i \in 1..Len(items) : ~Predicate(pool_type, items[i])) =>
                    StatsOf(stat, pool_type)
                        = [total |-> 0, free_count |-> 0, six_count |-> 0,
                           non_free_count |-> 0]
          /\ items = <<>> => DOMAIN stat.pity_by_pool = {}
          /\ stat.weapon_list = <<>> => DOMAIN stat.pity_weapon = {}
    /\ (stat # None /\ stat.pc = "header") =>
          /\ stat.header # ZeroDivisionError
          /\ stat.header.total_n = 0 => stat.header.avg_pity = Sentinel
          /\ (stat.header.pool_type = "weapon" /\ stat.weapon_list = <<>>) =>
                stat.header.total_n = 0 /\ stat.header.six_n = 0

\* C17 witness: the weapon header of an empty document.
C17_Witness ==
    /\ HeaderBuilt
    /\ items = <<>> /\ stat.weapon_list = <<>>
    /\ stat.header.pool_type = "weapon"
    /\ stat.header.avg_pity = Sentinel
    /\ stat.beginner_stats.total = 0

----------------------------------------------------------------------------
(* get_pull_number_in_pool (draw_img.py). *)

\* the key of  sorted(non_free_items, key=lambda x: (int(x.gachaTs), int(x.seqId)))
\* of a is at most that of b
TsSeqLeq(a, b) ==
    \/ ParseInt(a.gachaTs) < ParseInt(b.gachaTs)
    \/ /\ ParseInt(a.gachaTs) = ParseInt(b.gachaTs)
       /\ ParseInt(a.seqId) <= ParseInt(b.seqId)

RECURSIVE InsertAscTsSeq(_, _)
\* x put behind the elements of an ascending list that are not above it
InsertAscTsSeq(s, x) ==
    IF s = <<>> THEN <<x>>
    ELSE IF TsSeqLeq(Head(s), x) THEN <<Head(s)>> \o InsertAscTsSeq(Tail(s), x)
    ELSE <<x>> \o s

RECURSIVE SortAscByTsSeq(_)
\* sorted(...): ascending and stable
SortAscByTsSeq(s) ==
    IF s = <<>> THEN <<>>
    ELSE InsertAscTsSeq(SortAscByTsSeq(SubSeq(s, 1, Len(s) - 1)), s[Len(s)])

\* faulty variant: the free pulls stay in
NonFreeItemsAll(pool_items) == pool_items

\* non_free_items = [i for i in pool_items if not getattr(i, "isFree", False)]
NonFreeItems(pool_items) == SelectSeq(pool_items, LAMBDA i : ~IsFree(i))

RECURSIVE Locate(_, _, _)
\* the for loop: idx + 1 of the first i with the seqId and the gachaTs of
\* item, 0 when the loop ends without one
Locate(pool_sorted, item, idx) ==
    IF pool_sorted = <<>> THEN 0
    ELSE IF Head(pool_sorted).seqId = item.seqId
            /\ Head(pool_sorted).gachaTs = item.gachaTs
         THEN idx + 1
         ELSE Locate(Tail(pool_sorted), item, idx + 1)

\* faulty variant: an item not found raises
get_pull_number_in_pool_raising(list, item) ==
    LET pool_sorted == SortAscByTsSeq(NonFreeItems(PoolItems(list, item.poolId)))
        found == Locate(pool_sorted, item, 0)
    IN  IF found > 0 THEN [value |-> found, at |-> "loop"]
        ELSE [raised |-> "ValueError"]

\* get_pull_number_in_pool(items, item): the value returned and the return
\* statement that gave it
get_pull_number_in_pool(list, item) ==
    LET pool_sorted == SortAscByTsSeq(NonFreeItems(PoolItems(list, item.poolId)))
        found == Locate(pool_sorted, item, 0)
    IN  IF found > 0 THEN [value |-> found, at |-> "loop"]
        ELSE [value |-> 1, at |-> "fallback"]

----------------------------------------------------------------------------
(* SpecPull: one call of get_pull_number_in_pool. *)

PullSeqIds == {<<1>>, <<2>>, <<3>>}

PullAttrs ==
    [gachaTs : PityTs, poolId : {"standard", "beginner"}, rarity : {3, 6},
     isFree : BOOLEAN]

\* the lists of k records with pairwise distinct seqIds
PullLists(k) ==
    {[i \in 1..k |->
        [seqId |-> ids[i], gachaTs |-> at[i].gachaTs, poolId |-> at[i].poolId,
         rarity |-> at[i].rarity, isFree |-> at[i].isFree]] :
            ids \in {f \in [1..k -> PullSeqIds] :
                        \A i, j \in 1..k : i # j => f[i] # f[j]},
            at \in [1..k -> PullAttrs]}

\* the items asked about: each record of the list, the first record with
\* another timestamp, and a record of no list
PullTargets(list) ==
    Range(list)
      \cup {[list[1] EXCEPT !.gachaTs = ts] : ts \in IF list = <<>> THEN {} ELSE PityTs}
      \cup {[seqId |-> <<4>>, gachaTs |-> <<2>>, poolId |-> "standard",
             rarity |-> 6, isFree |-> FALSE]}

PullInit ==
    /\ BotIdle
    /\ MergeIdle
    /\ fetch = None
    /\ SyncIdle
    /\ pity_out = None
    /\ pity_pc = "off"
    /\ stat = None
    /\ heap = None
    /\ other = None
    /\ items \in UNION {PullLists(k) : k \in 0..3}
    /\ \E item \in PullTargets(items) :
          pull = [pc |-> "input", item |-> item, out |-> None]

\* gacha_num = get_pull_number_in_pool(pull_list, item)
PullNumber ==
    /\ pull # None
    /\ pull.pc = "input"
    /\ pull' = [pull EXCEPT !.pc = "done",
                            !.out = get_pull_number_in_pool(items, pull.item)]
    /\ UNCHANGED <<botVars, mergeVars, fetch, syncVars, pityVars, stat, heap, other>>

PullNext == PullNumber

SpecPull == PullInit /\ [][PullNext]_vars

PullDone == pull # None /\ pull.pc = "done"

\* r was pulled before q: below it in (int(gachaTs), int(seqId))
PulledBefore(r, q) == TsSeqLeq(r, q) /\ ~TsSeqLeq(q, r)

\* C18: for a non-free target contained in the list the result is 1 plus the
\* number of non-free records of the target's pool that precede it in
\* ascending (gachaTs, seqId) order; records of other pools and free pulls
\* do not count.
C18_PullNumber ==
    (PullDone /\ pull.item \in Range(items) /\ ~pull.item.isFree) =>
        /\ "value" \in DOMAIN pull.out
        /\ pull.out.value
              = 1 + Cardinality({i \in 1..Len(items) :
                        /\ items[i].poolId = pull.item.poolId
                        /\ ~items[i].isFree
                        /\ PulledBefore(items[i], pull.item)})

\* C18 witness: the target is the second non-free pull of its pool, with a
\* free pull of the pool before it.
C18_Witness ==
    /\ PullDone
    /\ pull.item \in Range(items) /\ ~pull.item.isFree
    /\ pull.out.value = 2
    /\ \E i \in 1..Len(items) :
          /\ items[i].poolId = pull.item.poolId /\ items[i].isFree
          /\ PulledBefore(items[i], pull.item)

\* some non-free record of the target's pool has its seqId and its gachaTs
Locatable ==
    \E i \in 1..Len(items) :
        /\ items[i].poolId = pull.item.poolId
        /\ ~items[i].isFree
        /\ items[i].seqId = pull.item.seqId
        /\ items[i].gachaTs = pull.item.gachaTs

\* C19: the fallback 1 is returned, and nothing is raised, exactly when no
\* non-free record of the target's pool has the target's seqId and gachaTs;
\* a free target present in the list gets the fallback.
C19_PullFallback ==
    PullDone =>
        /\ "value" \in DOMAIN pull.out
        /\ pull.out.at = "fallback" <=> ~Locatable
        /\ pull.out.at = "fallback" => pull.out.value = 1
        /\ (pull.item \in Range(items) /\ pull.item.isFree) =>
              pull.out = [value |-> 1, at |-> "fallback"]

\* C19 witness: a free target of the list with two non-free pulls of its pool
\* before it gets 1.
C19_Witness ==
    /\ PullDone
    /\ pull.item \in Range(items) /\ pull.item.isFree
    /\ Cardinality({i \in 1..Len(items) :
          /\ items[i].poolId = pull.item.poolId
          /\ ~items[i].isFree
          /\ PulledBefore(items[i], pull.item)}) = 2
    /\ pull.out = [value |-> 1, at |-> "fallback"]

----------------------------------------------------------------------------
(* SpecHeap: merge_records statement by statement on list objects.  A list *)
(* object is an address into objs; the parameters existing and new_records *)
(* are addresses, possibly the same one.                                   *)

\* faulty variant: merged = existing, the same object
ListAlias(objs, ref) == [objs |-> objs, ref |-> ref]

\* list(x): a new list object holding the elements of the object x
ListCopy(objs, ref) == [objs |-> Append(objs, objs[ref]), ref |-> Len(objs) + 1]

HeapInit ==
    /\ BotIdle
    /\ MergeIdle
    /\ fetch = None
    /\ SyncIdle
    /\ PityIdle
    /\ stat = None
    /\ pull = None
    /\ other = None
    /\ \E ex \in ListsUpTo(MergeRecs, 2), new \in ListsUpTo(MergeRecs, 2),
          same \in BOOLEAN :
          heap = [pc |-> "called",
                  objs |-> IF same THEN <<ex>> ELSE <<ex, new>>,
                  existing |-> 1,
                  new_records |-> IF same THEN 1 ELSE 2,
                  before |-> IF same THEN <<ex>> ELSE <<ex, new>>,
                  existing_seq_ids |-> {}, new_count |-> 0, merged |-> 0,
                  i |-> 0, returned |-> None]

\* existing_seq_ids = {...}; new_count = 0; merged = list(existing)
HeapCopy ==
    /\ heap # None
    /\ heap.pc = "called"
    /\ LET made == ListCopy(heap.objs, heap.existing)
       IN  heap' = [heap EXCEPT
                !.pc = "loop",
                !.existing_seq_ids =
                    {r.seqId : r \in Range(heap.objs[heap.existing])},
                !.objs = made.objs,
                !.merged = made.ref,
                !.i = 1]
    /\ UNCHANGED <<botVars, mergeVars, fetch, syncVars, pityVars, stat, pull, other>>

\* one turn of  for record in new_records
HeapLoop ==
    /\ heap # None
    /\ heap.pc = "loop"
    /\ heap.i <= Len(heap.objs[heap.new_records])
    /\ LET record == heap.objs[heap.new_records][heap.i]
       IN  IF record.seqId \notin heap.existing_seq_ids
           THEN heap' = [heap EXCEPT
                    !.objs[heap.merged] = Append(@, record),
                    !.existing_seq_ids = @ \cup {record.seqId},
                    !.new_count = @ + 1,
                    !.i = @ + 1]
           ELSE heap' = [heap EXCEPT !.i = @ + 1]
    /\ UNCHANGED <<botVars, mergeVars, fetch, syncVars, pityVars, stat, pull, other>>

\* merged.sort(key=lambda x: int(x.seqId), reverse=True), in place
HeapSort ==
    /\ heap # None
    /\ heap.pc = "loop"
    /\ heap.i > Len(heap.objs[heap.new_records])
    /\ heap' = [heap EXCEPT !.pc = "sorted",
                            !.objs[heap.merged] = SortDescBySeq(@)]
    /\ UNCHANGED <<botVars, mergeVars, fetch, syncVars, pityVars, stat, pull, other>>

\* return merged, new_count
HeapReturn ==
    /\ heap # None
    /\ heap.pc = "sorted"
    /\ heap' = [heap EXCEPT !.pc = "returned",
                            !.returned = [merged |-> heap.merged,
                                          new_count |-> heap.new_count]]
    /\ UNCHANGED <<botVars, mergeVars, fetch, syncVars, pityVars, stat, pull, other>>

HeapNext == HeapCopy \/ HeapLoop \/ HeapSort \/ HeapReturn

SpecHeap == HeapInit /\ [][HeapNext]_vars

\* C20: after a call of merge_records the object existing and the object
\* new_records each hold the records they held before the call, in the same
\* order, and the list returned is an object other than both.
C20_MergeLeavesInputs ==
    (heap # None /\ heap.pc = "returned") =>
        /\ heap.objs[heap.existing] = heap.before[heap.existing]
        /\ heap.objs[heap.new_records] = heap.before[heap.new_records]
        /\ heap.returned.merged \notin {heap.existing, heap.new_records}

\* C20 witness: a call that appended a record and whose sort moved it, with
\* the list returned holding what merge_records computes.
C20_Witness ==
    /\ heap # None /\ heap.pc = "returned"
    /\ heap.returned.new_count > 0
    /\ heap.objs[heap.existing] # <<>>
    /\ LET merged == heap.objs[heap.returned.merged]
       IN  /\ merged # heap.objs[heap.existing] \o heap.objs[heap.new_records]
           /\ SubSeq(merged, 1, Len(heap.objs[heap.existing]))
                  # heap.objs[heap.existing]
           /\ [merged |-> merged, new_count |-> heap.returned.new_count]
                  = merge_records(heap.objs[heap.existing],
                                  heap.objs[heap.new_records])

----------------------------------------------------------------------------
(* SpecFetchLoop: one call of fetch_record against a source that ignores   *)
(* the cursor: it holds one page of records and answers every request with *)
(* that page and the same hasMore.                                         *)

FetchLoopInit ==
    /\ BotIdle
    /\ MergeIdle
    /\ SyncIdle
    /\ PityIdle
    /\ RestIdle
    /\ \E k \in KnownMaxIds, page \in ListsUpTo(FetchRecs, PageLen),
          hasMore \in BOOLEAN :
          fetch = [f |-> FetchStart(k), pc |-> "waiting", last |-> <<>>,
                   source |-> [list |-> page, hasMore |-> hasMore]]

\* the source answers the pending request, whatever its seq_id
FetchLoopRespond ==
    /\ fetch.pc = "waiting"
    /\ LET g == FetchTurn(fetch.f, fetch.source.list, fetch.source.hasMore) IN
       /\ g.running => g.requests <= LoopRequests
       /\ fetch' = [fetch EXCEPT !.f = g,
                                 !.pc = IF g.running THEN "waiting" ELSE "returned",
                                 !.last = fetch.source.list]
    /\ UNCHANGED <<botVars, mergeVars, syncVars, pityVars, restVars>>

FetchLoopNext == FetchLoopRespond \/ FetchRaise

SpecFetchLoop == FetchLoopInit /\ [][FetchLoopNext]_vars

\* the variables of  while has_more:  that decide the next request and
\* whether there is one
LoopVariables(f) == <<f.has_more, f.seq_id>>

\* C14: fetch_record terminates against every source of a finite history,
\* one that ignores the cursor included.  On finite runs: no turn of the
\* loop leaves the fetch waiting for a response with the loop variables it
\* had before the turn (the source answering alike, such a turn repeats for
\* ever and the fetch never returns).
C14_FetchTerminates ==
    [][(fetch.pc = "waiting" /\ fetch'.pc = "waiting")
          => LoopVariables(fetch'.f) # LoopVariables(fetch.f)]_vars

----------------------------------------------------------------------------
(* SpecAnySource: fetch_full_record against a source that answers a page   *)
(* request with any page of records of the selector's category, whatever   *)
(* the selector, the cursor and what it answered before.  Each record of a *)
(* category has its own seqId.                                             *)

AnySourceRecord(n, sel) ==
    [seqId |-> ToDigits(n), gachaTs |-> ToDigits(n), poolId |-> sel,
     rarity |-> 3, isFree |-> FALSE]

AnySourceInit ==
    /\ BotIdle
    /\ MergeIdle
    /\ fetch = None
    /\ PityIdle
    /\ RestIdle
    /\ src = [sel \in Selectors |->
                CASE sel = "special" ->
                        <<AnySourceRecord(3, sel), AnySourceRecord(1, sel)>>
                  [] sel = "standard" -> <<AnySourceRecord(2, sel)>>
                  [] OTHER ->
                        <<AnySourceRecord(2, sel), AnySourceRecord(1, sel)>>]
    /\ file = NoFile
    /\ sync = SyncOff
    /\ draw_read = "none"

\* a page response arrives (status 200) for the pending request
FetchPageAny ==
    /\ sync.pc = "fetch"
    /\ LET cat == Category(SelectorOrder[sync.sel])
           had == IF cat = "char" THEN Len(sync.fetch_record_char) ELSE 0
       IN  \E page \in ListsUpTo(CategoryRecords(src, cat), PageLen),
              hasMore \in BOOLEAN :
              LET g == FetchTurn(sync.f, page, hasMore) IN
              /\ g.running => g.requests <= MaxRequests
              /\ had + Len(g.records) <= MaxFetched
              /\ sync' = IF g.running THEN [sync EXCEPT !.f = g]
                         ELSE AfterFetch([sync EXCEPT !.f = g], g.records)
    /\ UNCHANGED <<botVars, mergeVars, fetch, pityVars, restVars, src, file, draw_read>>

AnySourceNext ==
    \/ StartSync
    \/ FetchPageAny
    \/ FetchFail
    \/ Cancel
    \/ MergeAndSave
    \/ SaveInterrupted

SpecAnySource == AnySourceInit /\ [][AnySourceNext]_vars

\* no two records of the list have the same seqId
DistinctSeqIds(list) ==
    \A i, j \in 1..Len(list) : i # j => list[i].seqId # list[j].seqId

\* C12: starting from no persisted document, after any sequence of syncs
\* that saved, failed or were cancelled, no two records of the persisted
\* character list share a seqId, and no two of the persisted weapon list.
C12_PersistedDistinct ==
    DistinctSeqIds(file.charList) /\ DistinctSeqIds(file.weaponList)

\* C12 witness: a second sync was handed one new record twice and saved a
\* document of two character records.
C12_Witness ==
    /\ sync.pc = "done"
    /\ sync.existing_char_list # <<>>
    /\ ~DistinctSeqIds(sync.fetch_record_char)
    /\ sync.new_char_count = 1
    /\ Len(file.charList) = 2

----------------------------------------------------------------------------
(* SpecTwoSyncs: sync_gachalog triggered while a fetch_full_record of the  *)
(* same player may be running.  sync holds the locals of the first call,   *)
(* other those of the call the second trigger makes; the two are tasks of  *)
(* one event loop and take turns at their awaits.                          *)

OtherRunning == other # None /\ other.pc \in {"fetch", "close"}

TwoSyncsInit ==
    /\ BotIdle
    /\ MergeIdle
    /\ fetch = None
    /\ SyncIdle
    /\ PityIdle
    /\ stat = None
    /\ pull = None
    /\ heap = None
    /\ other = SyncOff

\* the player pulls while no sync runs
TwoSyncsPull(sel) ==
    /\ ~Running
    /\ ~OtherRunning
    /\ NewPull(sel)

\* sync_gachalog: the command arrives again; the handler looks up the
\* player, sends its notice and awaits fetch_full_record, which loads the
\* file and sends its first page request
OtherStart ==
    /\ ~OtherRunning
    /\ LET d == load_existing_gacha_data(file)
           chars == IF d = None THEN <<>> ELSE d.charList
           weapons == IF d = None THEN <<>> ELSE d.weaponList
           s == [SyncOff EXCEPT !.pc = "fetch", !.loaded = file,
                    !.existing_char_list = chars,
                    !.existing_weapon_list = weapons,
                    !.char_max_seq_id = get_max_seq_id(chars),
                    !.weapon_max_seq_id = get_max_seq_id(weapons)]
       IN  other' = [s EXCEPT !.f = FetchStart(MaxFor(s, SelectorOrder[1]))]
    /\ UNCHANGED <<botVars, mergeVars, fetch, syncVars, pityVars, stat, pull, heap>>

\* a page response arrives for the pending request of the second call
OtherFetchPage ==
    /\ other.pc = "fetch"
    /\ LET resp == Serve(src[SelectorOrder[other.sel]], Cursor(other.f))
           g == FetchTurn(other.f, resp.list, resp.hasMore)
       IN  other' = IF g.running THEN [other EXCEPT !.f = g]
                    ELSE AfterFetch([other EXCEPT !.f = g], g.records)
    /\ UNCHANGED <<botVars, mergeVars, fetch, syncVars, pityVars, stat, pull, heap>>

\* a page request of the second call fails
OtherFetchFail ==
    /\ other.pc = "fetch"
    /\ other' = [SyncOff EXCEPT !.pc = "failed", !.loaded = other.loaded,
                                !.sel = other.sel]
    /\ UNCHANGED <<botVars, mergeVars, fetch, syncVars, pityVars, stat, pull, heap>>

\* the second call merges and saves
OtherMergeAndSave ==
    /\ other.pc = "close"
    /\ LET s == Merged(other) IN
       /\ other' = [s EXCEPT !.pc = "done"]
       /\ file' = Document(s.merged_char_list, s.merged_weapon_list)
    /\ UNCHANGED <<botVars, mergeVars, fetch, pityVars, stat, pull, heap, src, sync,
                   draw_read>>

TwoSyncsNext ==
    \/ \E sel \in Selectors : TwoSyncsPull(sel)
    \/ StartSync
    \/ FetchPage
    \/ FetchFail
    \/ MergeAndSave
    \/ OtherStart
    \/ OtherFetchPage
    \/ OtherFetchFail
    \/ OtherMergeAndSave

SpecTwoSyncs == TwoSyncsInit /\ [][TwoSyncsNext]_vars

\* C13: at most one sync of the player is between its load and its save: a
\* trigger that arrives meanwhile starts no second run.
C13_OneSyncAtATime == ~(Running /\ OtherRunning)

----------------------------------------------------------------------------
(* The turns of fetch_record in SpecFetch: fetch.last and fetch.more are   *)
(* the page and the hasMore of the response just processed.                *)

\* the position in the page of the first record at or below k, 0 if none
FirstKnown(page, k) ==
    LET known == {i \in 1..Len(page) : ParseInt(page[i].seqId) <= k}
    IN  IF known = {} THEN 0
        ELSE CHOOSE i \in known : \A j \in known : i <= j

\* C21: when a page holds a record with seqId <= knownMaxSequenceId,
\* fetch_record keeps the records of the page in front of the first such
\* record only, drops that record and all behind it, whatever hasMore says,
\* sends no further request and returns.
C21_EarlyStopImmediate ==
    [][(/\ fetch.pc = "waiting"
        /\ fetch'.pc # "raised"
        /\ FirstKnown(fetch'.last, fetch.f.k) > 0)
          => /\ fetch'.pc = "returned"
             /\ fetch'.f.requests = fetch.f.requests
             /\ fetch'.f.records
                   = fetch.f.records
                        \o SubSeq(fetch'.last, 1,
                                  FirstKnown(fetch'.last, fetch.f.k) - 1)]_vars

\* C21 witness: the second page starts with a known record followed by a new
\* one and says hasMore; the fetch returned the first page only.
C21_Witness ==
    /\ fetch.pc = "returned"
    /\ fetch.f.requests = 2
    /\ fetch.more
    /\ Len(fetch.last) = 2
    /\ ParseInt(fetch.last[1].seqId) <= fetch.f.k
    /\ ParseInt(fetch.last[2].seqId) > fetch.f.k
    /\ fetch.f.records # <<>>
    /\ fetch.last[2] \notin Range(fetch.f.records)

\* C22: the first request carries no cursor; a further request is sent only
\* after a page processed without early stop whose hasMore is true, one
\* request per page, with the seqId of the last record of that page as
\* cursor.
C22_RequestsInCursorOrder ==
    [][(fetch.pc = "waiting" /\ fetch'.pc # "raised")
          => /\ fetch.f.requests = 1 => Cursor(fetch.f) = 0
             /\ fetch'.pc = "waiting"
                   <=> fetch'.f.requests = fetch.f.requests + 1
             /\ fetch'.pc # "waiting"
                   => fetch'.f.requests = fetch.f.requests
             /\ fetch'.pc = "waiting"
                   => /\ FirstKnown(fetch'.last, fetch.f.k) = 0
                      /\ fetch'.more
                      /\ fetch'.last # <<>>
                      /\ Cursor(fetch'.f) > 0
                      /\ Cursor(fetch'.f)
                            = ParseInt(fetch'.last[Len(fetch'.last)].seqId)]_vars

\* C22 witness: the second request is out, with the seqId of the last of the
\* two records of the first page as cursor.
C22_Witness ==
    /\ fetch.pc = "waiting"
    /\ fetch.f.requests = 2
    /\ Len(fetch.last) = 2
    /\ ParseInt(fetch.last[1].seqId) # ParseInt(fetch.last[2].seqId)
    /\ Cursor(fetch.f) = ParseInt(fetch.last[2].seqId)

\* C23: after a response with hasMore false, or with an empty page,
\* fetch_record sends no further request and returns all the records it has
\* accumulated, those of a last page that is not empty included.
C23_LastPageReturned ==
    [][(/\ fetch.pc = "waiting"
        /\ fetch'.pc # "raised"
        /\ FirstKnown(fetch'.last, fetch.f.k) = 0
        /\ (~fetch'.more \/ fetch'.last = <<>>))
          => /\ fetch'.pc = "returned"
             /\ fetch'.f.requests = fetch.f.requests
             /\ fetch'.f.records = fetch.f.records \o fetch'.last]_vars

\* C23 witness: a second page of records with hasMore false ended the fetch,
\* which returned the records of both pages.
C23_Witness ==
    /\ fetch.pc = "returned"
    /\ ~fetch.f.should_stop
    /\ ~fetch.more
    /\ fetch.f.requests = 2
    /\ fetch.last # <<>>
    /\ Len(fetch.f.records) > Len(fetch.last)

----------------------------------------------------------------------------
(* The sync of Spec, selector by selector. *)

\* the list of a category in the document a sync loaded; empty when there
\* was no loadable document
LoadedList(s, cat) ==
    IF s.loaded.state # "valid" THEN <<>>
    ELSE IF cat = "char" THEN s.loaded.charList ELSE s.loaded.weaponList

\* the largest int(seqId) of a list, 0 for the empty list
LargestSeqId(list) ==
    IF list = <<>> THEN 0
    ELSE LET ids == {ParseInt(list[i].seqId) : i \in 1..Len(list)}
         IN  CHOOSE m \in ids : \A n \in ids : n <= m

\* C24: the fetch of every character pool selector is given the largest
\* seqId of the persisted character list, the weapon fetch that of the
\* persisted weapon list, 0 for an empty list; the seqIds of the other
\* category play no part.
C24_MaxPerCategory ==
    sync.pc = "fetch" =>
        sync.f.k = LargestSeqId(LoadedList(sync, Category(SelectorOrder[sync.sel])))

\* C24 witness: the fetch of the second character pool is out, and the
\* first has brought a record whose seqId is at or below the largest
\* persisted weapon seqId.
C24_Witness ==
    /\ sync.pc = "fetch"
    /\ sync.sel = 2
    /\ Category(SelectorOrder[sync.sel]) = "char"
    /\ sync.weapon_max_seq_id > sync.char_max_seq_id
    /\ sync.f.k = sync.char_max_seq_id
    /\ \E i \in 1..Len(sync.fetch_record_char) :
          ParseInt(sync.fetch_record_char[i].seqId) <= sync.weapon_max_seq_id

\* the records of a history above k, in the order of the history
AboveInOrder(history, k) == SelectSeq(history, LAMBDA r : ParseInt(r.seqId) > k)

\* C25: every call of fetch_record starts with no cursor and no records,
\* and what it returns for a selector is decided by knownMaxSequenceId and
\* that selector's pages alone: the records of the selector's own history
\* above knownMaxSequenceId, whatever the fetches before it did.
C25_SelectorsIndependent ==
    [][/\ (sync'.pc = "fetch" /\ sync'.f.requests = 1)
            => Cursor(sync'.f) = 0 /\ sync'.f.records = <<>>
       /\ (sync.pc = "fetch"
             /\ (sync'.pc = "close"
                   \/ (sync'.pc = "fetch" /\ sync'.sel # sync.sel)))
            => LET sel == SelectorOrder[sync.sel]
                   result == AboveInOrder(src[sel], sync.f.k)
               IN  IF Category(sel) = "char"
                   THEN sync'.fetch_record_char
                            = sync.fetch_record_char \o result
                   ELSE sync'.fetch_record_weapon = result]_vars

\* C25 witness: the fetch of the first character pool took a second page, so
\* ended with a cursor, and the fetch of the second pool, which has a record
\* to bring, is out with no cursor.
C25_Witness ==
    /\ sync.pc = "fetch"
    /\ sync.sel = 2
    /\ Len(sync.fetch_record_char) > PageSize
    /\ Cursor(sync.f) = 0
    /\ AboveInOrder(src[SelectorOrder[2]], sync.f.k) # <<>>

\* C26: the number on the card of a rarity-6 record is the number of pulls
\* since the last rarity-6 record of its pool: the non-free pulls of the
\* pool after the previous rarity-6 record up to and including the record
\* itself.
C26_PullsSinceLastTopRarity ==
    (/\ PullDone
     /\ pull.item \in Range(items)
     /\ pull.item.rarity = 6
     /\ ~pull.item.isFree) =>
        pull.out.value
            = Cardinality({i \in 1..Len(items) :
                  /\ items[i].poolId = pull.item.poolId
                  /\ ~items[i].isFree
                  /\ ~PulledBefore(pull.item, items[i])
                  /\ \A j \in 1..Len(items) :
                        (/\ items[j].poolId = pull.item.poolId
                         /\ items[j].rarity = 6
                         /\ PulledBefore(items[j], pull.item))
                            => PulledBefore(items[j], items[i])})

\* the list with its records i and i + 1 exchanged
Swap(list, i) ==
    [j \in 1..Len(list) |->
        IF j = i THEN list[i + 1] ELSE IF j = i + 1 THEN list[i] ELSE list[j]]

\* C27: for records with unique seqIds get_pity_per_pool gives the same
\* mapping for the list in any order (exchanging two neighbours changes
\* nothing); and when the most recent timestamp of a pool is that of a batch
\* holding a rarity-6 record followed by k non-free records of lower rarity
\* and larger seqId, the pity of the pool is k.
C27_PityOrderFree ==
    pity_pc = "done" =>
        /\ \A i \in 1..(Len(items) - 1) :
              get_pity_per_pool(Swap(items, i)) = pity_out
        /\ \A i \in 1..Len(items) :
              LET six == items[i]
                  pool == {r \in Range(items) : r.poolId = six.poolId}
                  behind == {r \in pool :
                                /\ r.gachaTs = six.gachaTs
                                /\ ParseInt(r.seqId) > ParseInt(six.seqId)}
              IN  (/\ six.rarity = 6
                   /\ \A r \in pool :
                         ParseInt(r.gachaTs) <= ParseInt(six.gachaTs)
                   /\ \A r \in behind : ~r.isFree /\ r.rarity < 6)
                      => pity_out[six.poolId] = Cardinality(behind)

\* C27 witness: a batch of three pulls of one pool and one timestamp, given
\* as seqId 3, 1, 2 with the rarity-6 record at seqId 1: the pity is 2.
C27_Witness ==
    /\ pity_pc = "done"
    /\ Len(items) = 3
    /\ \A i \in 1..3 :
          /\ items[i].poolId = "standard"
          /\ items[i].gachaTs = <<2>>
          /\ ~items[i].isFree
    /\ <<items[1].seqId, items[2].seqId, items[3].seqId>> = <<<<3>>, <<1>>, <<2>>>>
    /\ <<items[1].rarity, items[2].rarity, items[3].rarity>> = <<3, 6, 3>>
    /\ pity_out["standard"] = 2

\* the records of a list with a seqId, in the order of the list
WithSeqId(list, s) == SelectSeq(list, LAMBDA r : r.seqId = s)

\* C28: merge_records keeps the existing records of a seqId as they are and
\* drops the incoming records of that seqId, in a first merge and in a
\* merge of the merged list after it: poolId and every other field of a
\* record once merged stay.
C28_ExistingRecordKept ==
    /\ merge_pc # "input" =>
          \A s \in SeqIdStrings(existing) :
              WithSeqId(merge_out.merged, s) = WithSeqId(existing, s)
    /\ merge_pc = "remerged" =>
          \A s \in SeqIdStrings(merge_out.merged) :
              WithSeqId(merge_again.merged, s) = WithSeqId(merge_out.merged, s)

\* C28 witness: the incoming list holds a record with the seqId of an
\* existing record and another poolId, and a new record; after two merges
\* the existing record is there and the other is not.
C28_Witness ==
    /\ merge_pc = "remerged"
    /\ merge_out.new_count > 0
    /\ \E i \in 1..Len(existing), j \in 1..Len(new_records) :
          /\ new_records[j].seqId = existing[i].seqId
          /\ new_records[j].poolId # existing[i].poolId
          /\ existing[i] \in Range(merge_again.merged)
          /\ new_records[j] \notin Range(merge_again.merged)

\* C29: the seqIds of merge_records(A, B).merged are those of A and those of
\* B, every record of A is in merged, and len(merged) = len(A) + newCount.
C29_MergeUnion ==
    merge_pc # "input" =>
        /\ SeqIdStrings(merge_out.merged)
              = SeqIdStrings(existing) \cup SeqIdStrings(new_records)
        /\ Range(existing) \subseteq Range(merge_out.merged)
        /\ Len(merge_out.merged) = Len(existing) + merge_out.new_count

\* C29 witness: A holds two records, B one record with a seqId of A and one
\* with a new seqId: merged holds three.
C29_Witness ==
    /\ merge_pc = "merged"
    /\ Len(existing) = 2
    /\ Len(new_records) = 2
    /\ SeqIdStrings(new_records) \cap SeqIdStrings(existing) # {}
    /\ merge_out.new_count = 1
    /\ Len(merge_out.merged) = 3

----------------------------------------------------------------------------
(* SpecLive: fetch_full_record against a record source that changes while  *)
(* the call runs. The call awaits each page response, the sleep between    *)
(* pages and aclose(); at each of them the player may pull, and the record *)
(* lands in its pool at the source with the next seqId of its category.    *)

\* the player pulls, whether a sync runs or not
LivePull(sel) ==
    /\ Pulls < LivePulls
    /\ NewPull(sel)

LiveNext ==
    \/ \E sel \in Selectors : LivePull(sel)
    \/ StartSync
    \/ FetchPage
    \/ MergeAndSave

SpecLive == SyncInit /\ [][LiveNext]_vars

\* the character records of the source, in any pool, at or below the
\* largest seqId of a list
SourceCharsUpTo(list) ==
    {r \in CategoryRecords(src, "char") :
        ParseInt(r.seqId) <= get_max_seq_id(list)}

\* C30: once a sync has saved, the persisted character list holds every
\* character record of the source, in every pool, whose seqId is at most the
\* largest persisted character seqId, pulls made during the sync included.
C30_NoGapsAfterSync ==
    sync.pc = "done" => SourceCharsUpTo(file.charList) \subseteq Range(file.charList)

----------------------------------------------------------------------------
(* SpecServe: one fetch_record call against a source that holds a fixed    *)
(* history of one selector in strictly descending seqId order, answers a   *)
(* request without seq_id with its first records and a request with        *)
(* seq_id = c with the records below c, a page of fetch.size at a time.    *)

\* the response to a request with this cursor (0: no seq_id parameter) of a
\* source with this page size
ServePage(history, cursor, size) ==
    LET rest == IF cursor > 0 THEN Below(history, cursor) ELSE history
        n == IF Len(rest) < size THEN Len(rest) ELSE size
    IN  [list |-> SubSeq(rest, 1, n), hasMore |-> Len(rest) > n]

RECURSIVE Descending(_, _)
\* the records with the seqIds of ids that are <= n, largest first
Descending(ids, n) ==
    IF n = 0 THEN <<>>
    ELSE IF n \in ids
         THEN <<[seqId |-> ToDigits(n), gachaTs |-> <<1>>, poolId |-> "standard",
                 rarity |-> 3, isFree |-> FALSE]>> \o Descending(ids, n - 1)
         ELSE Descending(ids, n - 1)

ServeInit ==
    /\ BotIdle
    /\ MergeIdle
    /\ SyncIdle
    /\ PityIdle
    /\ RestIdle
    /\ \E ids \in SUBSET (1..HistoryMax), k \in 0..HistoryMax,
          size \in 1..MaxPageSize :
          fetch = [f |-> FetchStart(k), pc |-> "waiting", last |-> <<>>,
                   more |-> FALSE, history |-> Descending(ids, HistoryMax),
                   size |-> size]

\* the response to the pending request arrives with status 200
ServeRespond ==
    /\ fetch.pc = "waiting"
    /\ LET resp == ServePage(fetch.history, Cursor(fetch.f), fetch.size)
           g == FetchTurn(fetch.f, resp.list, resp.hasMore)
       IN  fetch' = [fetch EXCEPT !.f = g,
                                  !.pc = IF g.running THEN "waiting" ELSE "returned",
                                  !.last = resp.list, !.more = resp.hasMore]
    /\ UNCHANGED <<botVars, mergeVars, syncVars, pityVars, restVars>>

ServeNext == ServeRespond

SpecServe == ServeInit /\ [][ServeNext]_vars

\* the records of a history above k, in the history's order
AboveKnown(history, k) ==
    SelectSeq(history, LAMBDA r : ParseInt(r.seqId) > k)

\* C31: against a source that does not change, serves the history in
\* strictly descending seqId order and answers a cursor c with the records
\* below c, fetch_record returns exactly the records of the history with
\* seqId > knownMaxSequenceId, each once, in descending order, whatever the
\* page size.
C31_FetchComplete ==
    fetch.pc = "returned" =>
        /\ fetch.f.records = AboveKnown(fetch.history, fetch.f.k)
        /\ \A i, j \in 1..Len(fetch.f.records) :
              i < j => ParseInt(fetch.f.records[i].seqId)
                          > ParseInt(fetch.f.records[j].seqId)

\* C31 witness: a history of four records served two at a time, the known
\* maximum being the oldest: the call returns three records from two pages.
C31_Witness ==
    /\ fetch.pc = "returned"
    /\ fetch.size = 2
    /\ Len(fetch.history) = 4
    /\ fetch.f.k = 1
    /\ fetch.f.requests = 2
    /\ fetch.f.should_stop
    /\ Len(fetch.f.records) = 3

\* C32: when syncs run one after another and the document loads, the seqIds
\* a successful sync writes include, in each category, every seqId that was
\* persisted before it: a sync removes no record.
C32_HistoryOnlyGrows ==
    [][(file.state = "valid" /\ sync.pc = "close" /\ sync'.pc = "done") =>
          /\ SeqIdStrings(file.charList) \subseteq SeqIdStrings(file'.charList)
          /\ SeqIdStrings(file.weaponList) \subseteq SeqIdStrings(file'.weaponList)
          /\ Range(file.charList) \subseteq Range(file'.charList)
          /\ Range(file.weaponList) \subseteq Range(file'.weaponList)]_vars

\* C32 witness: a sync has saved over a document that held records of both
\* categories, adding a character record and no weapon record.
C32_Witness ==
    /\ sync.pc = "done"
    /\ sync.loaded.state = "valid"
    /\ sync.loaded.charList # <<>>
    /\ sync.loaded.weaponList # <<>>
    /\ sync.new_char_count > 0
    /\ sync.new_weapon_count = 0
    /\ SeqIdStrings(sync.loaded.charList) \subseteq SeqIdStrings(file.charList)
    /\ file.weaponList = sync.loaded.weaponList

----------------------------------------------------------------------------
(* SpecLogin: one run of on_beyond_scan_login. The handler awaits the      *)
(* status polls, the three account requests, the replies of the chat and   *)
(* the two database writes; timeout(60) may end each of its three loops at *)
(* any of their awaits.                                                     *)

\* None where the other values are strings
NoText == "None"

UserId == "user"

\* role ids and account uid of the scanned account
RoleIds == <<"role1", "role2", "role3">>

AccountUid == "uid1"

\* the texts a reply may hold
\* the word that confirms ("确认") and the word that cancels ("取消")
ConfirmWord == "confirm"

CancelWord == "cancel"

ReplyTexts == {ConfirmWord, CancelWord, "role1", "role2", "other"}

\* the rows of BeyondBind and BeyondUser before the command
StoredBefore ==
    {[bind |-> {}, user |-> {}],
     [bind |-> {[user_id |-> UserId, uid |-> "role9"]},
      user |-> {[user_id |-> UserId, uid |-> "uid9", platform_roleid |-> "role9"]}]}

\* the locals of the handler after generate_scan_login and the QR message
LoginStart(stored) ==
    [pc |-> "poll", polls |-> 0, replies |-> 0, scanCode |-> NoText,
     roles |-> <<>>, uid |-> NoText, platform_roleid |-> NoText, text |-> NoText,
     end |-> NoText, bind |-> stored.bind, user |-> stored.user,
     before |-> stored]

\* return, or an exception leaving the handler
Ended(l, how) == [l EXCEPT !.pc = "ended", !.end = how]

\* check_scan_login_status returned CheckScanLoginStatusSuccessData
PollSuccess ==
    /\ login.pc = "poll"
    /\ login' = [login EXCEPT !.pc = "grant", !.scanCode = "scanCode"]
    /\ UNCHANGED <<mergeVars, fetch, syncVars, pityVars, restVars, attend, subs>>

\* the status is "未扫码" or "已扫码待确认": sleep(3) and poll again
PollPending ==
    /\ login.pc = "poll"
    /\ login.polls < MaxPolls
    /\ login' = [login EXCEPT !.polls = @ + 1]
    /\ UNCHANGED <<mergeVars, fetch, syncVars, pityVars, restVars, attend, subs>>

\* any other status: the scan failed or expired, return
PollFailed ==
    /\ login.pc = "poll"
    /\ login' = Ended(login, "scan_failed")
    /\ UNCHANGED <<mergeVars, fetch, syncVars, pityVars, restVars, attend, subs>>

\* timeout(60) ends the poll loop: "扫码登录超时..." and return
PollTimeout ==
    /\ login.pc = "poll"
    /\ login' = Ended(login, "poll_timeout")
    /\ UNCHANGED <<mergeVars, fetch, syncVars, pityVars, restVars, attend, subs>>

\* faulty variant: the role id the user chose is kept and the flow goes on
\* to the confirmation
AfterChoiceKept(l, text) ==
    [l EXCEPT !.pc = "confirm", !.text = text, !.uid = AccountUid,
              !.platform_roleid = text, !.replies = 0]

\* what follows the role choice of an account with several roles: uid is
\* assigned anew from the binding list, and of the three branches on
\* len(roles) the last one is taken
AfterChoice(l, text) ==
    Ended([l EXCEPT !.text = text, !.uid = AccountUid], "unknown_error")

\* token_by_scan_code, get_grant_code, get_binding_list and the branches on
\* the binding list, up to the next await of a reply or to a return
GetBindingList ==
    /\ login.pc = "grant"
    /\ \E accounts \in {0, 1}, n \in 0..Len(RoleIds) :
          LET roles == SubSeq(RoleIds, 1, n) IN
          login' =
            IF accounts = 0 THEN Ended(login, "no_account")
            ELSE IF n > 1 THEN [login EXCEPT !.pc = "choose", !.roles = roles]
            ELSE IF n = 1
            THEN [login EXCEPT !.pc = "confirm", !.roles = roles,
                               !.uid = AccountUid,
                               !.platform_roleid = roles[1]]
            ELSE Ended([login EXCEPT !.uid = AccountUid], "no_role")
    /\ UNCHANGED <<mergeVars, fetch, syncVars, pityVars, restVars, attend, subs>>

\* one of the three requests raises, or the assert on the grant data fails
GrantRaise ==
    /\ login.pc = "grant"
    /\ login' = Ended(login, "exception")
    /\ UNCHANGED <<mergeVars, fetch, syncVars, pityVars, restVars, attend, subs>>

\* receive_mutiply_resp() returns while the handler waits for a role id
\* (None: no reply, the loop turns)
ChoiceReply ==
    /\ login.pc = "choose"
    /\ login.replies < MaxReplies
    /\ \E text \in ReplyTexts \cup {NoText} :
          login' =
            IF text # NoText /\ text \in Range(login.roles)
            THEN AfterChoice([login EXCEPT !.uid = text], text)
            ELSE [login EXCEPT !.replies = @ + 1, !.text = text]
    /\ UNCHANGED <<mergeVars, fetch, syncVars, pityVars, restVars, attend, subs>>

\* timeout(60) ends the choice loop: "指定UID超时，登录流程终止。" and return
ChoiceTimeout ==
    /\ login.pc = "choose"
    /\ login' = Ended(login, "choice_timeout")
    /\ UNCHANGED <<mergeVars, fetch, syncVars, pityVars, restVars, attend, subs>>

\* faulty variant: every reply but the cancel word confirms
ConfirmReplyAnyText(text) ==
    IF text = CancelWord THEN "stop" ELSE "bind"

\* the branch the confirmation loop takes on the text of a reply
ConfirmReply(text) ==
    IF text = ConfirmWord THEN "bind"
    ELSE IF text = CancelWord THEN "stop"
    ELSE "again"

\* receive_mutiply_resp() returns while the handler waits for the
\* confirmation (None: no reply, the loop turns)
ConfirmationReply ==
    /\ login.pc = "confirm"
    /\ login.replies < MaxReplies
    /\ \E text \in ReplyTexts \cup {NoText} :
          login' =
            IF text = NoText THEN [login EXCEPT !.replies = @ + 1]
            ELSE CASE ConfirmReply(text) = "bind" ->
                        [login EXCEPT !.pc = "insert_uid", !.text = text]
                   [] ConfirmReply(text) = "stop" ->
                        Ended([login EXCEPT !.text = text], "cancelled")
                   [] OTHER ->
                        [login EXCEPT !.replies = @ + 1, !.text = text]
    /\ UNCHANGED <<mergeVars, fetch, syncVars, pityVars, restVars, attend, subs>>

\* timeout(60) ends the confirmation loop: "确认绑定超时..." and return
ConfirmTimeout ==
    /\ login.pc = "confirm"
    /\ login' = Ended(login, "confirm_timeout")
    /\ UNCHANGED <<mergeVars, fetch, syncVars, pityVars, restVars, attend, subs>>

\* BeyondBind.insert_uid(bot_id, user_id, uid=platform_roleid)
InsertUid ==
    /\ login.pc = "insert_uid"
    /\ login' = [login EXCEPT
                   !.pc = "insert_user",
                   !.bind = @ \cup {[user_id |-> UserId,
                                     uid |-> login.platform_roleid]}]
    /\ UNCHANGED <<mergeVars, fetch, syncVars, pityVars, restVars, attend, subs>>

\* BeyondUser.insert_or_update_user(...), then "扫码登录成功..."
InsertOrUpdateUser ==
    /\ login.pc = "insert_user"
    /\ login' = Ended([login EXCEPT
                   !.user = {u \in @ : u.platform_roleid # login.platform_roleid}
                              \cup {[user_id |-> UserId, uid |-> login.uid,
                                     platform_roleid |-> login.platform_roleid]}],
                   "bound")
    /\ UNCHANGED <<mergeVars, fetch, syncVars, pityVars, restVars, attend, subs>>

LoginInit ==
    /\ MergeIdle
    /\ fetch = None
    /\ SyncIdle
    /\ PityIdle
    /\ RestIdle
    /\ attend = None
    /\ subs = None
    /\ \E stored \in StoredBefore : login = LoginStart(stored)

LoginNext ==
    \/ PollSuccess
    \/ PollPending
    \/ PollFailed
    \/ PollTimeout
    \/ GetBindingList
    \/ GrantRaise
    \/ ChoiceReply
    \/ ChoiceTimeout
    \/ ConfirmationReply
    \/ ConfirmTimeout
    \/ InsertUid
    \/ InsertOrUpdateUser

SpecLogin == LoginInit /\ [][LoginNext]_vars

\* the rows stored are those stored before the command
BindingsUnchanged(l) == l.bind = l.before.bind /\ l.user = l.before.user

\* C33: a binding is written only after a status poll returned success and
\* a reply with the confirmation word followed; a failed or expired scan, a
\* poll timeout, the reply for cancel and a confirmation timeout each end
\* the flow with the stored bindings unchanged.
C33_BindOnlyAfterConfirm ==
    /\ ~BindingsUnchanged(login) =>
          (login.scanCode # NoText /\ login.text = ConfirmWord)
    /\ login.pc \in {"insert_uid", "insert_user"} =>
          (login.scanCode # NoText /\ login.text = ConfirmWord)
    /\ (login.pc = "ended"
          /\ login.end \in {"scan_failed", "poll_timeout", "cancelled",
                            "confirm_timeout"}) => BindingsUnchanged(login)

\* C33 witness: the flow has written both rows, after a poll that found the
\* scan pending, one that succeeded, a reply that was neither word and the
\* confirmation.
C33_Witness ==
    /\ login.pc = "ended"
    /\ login.end = "bound"
    /\ login.polls = 1
    /\ login.replies = 1
    /\ login.text = ConfirmWord
    /\ [user_id |-> UserId, uid |-> "role1"] \in login.bind \ login.before.bind
    /\ login.user # login.before.user

\* C34: when the first bound account has more than one role no binding is
\* written: whether the user names a listed role id or the choice times
\* out, the flow ends with the error or the timeout message before the
\* confirmation step, and the role id the user chose is not used.
C34_SeveralRolesNeverBind ==
    Len(login.roles) > 1 =>
        /\ BindingsUnchanged(login)
        /\ login.pc \in {"choose", "ended"}
        /\ login.pc = "ended" => login.end \in {"unknown_error", "choice_timeout"}
        /\ login.platform_roleid = NoText
        /\ login.uid \notin Range(login.roles)

\* C34 witness: the account has three roles; after a reply that names no
\* listed role the user named the second one, and the flow ended with the
\* error message.
C34_Witness ==
    /\ Len(login.roles) = 3
    /\ login.pc = "ended"
    /\ login.end = "unknown_error"
    /\ login.replies = 1
    /\ login.text = login.roles[2]
    /\ login.uid = AccountUid
    /\ BindingsUnchanged(login)

----------------------------------------------------------------------------
(* SpecSignIn: one call of sign_in. attend.posts counts the attendance     *)
(* POSTs the call has sent (do_attendance), attend.reply is the string it  *)
(* returns.                                                                 *)

\* SklandGameName
GameNames == {"arknights", "endfield"}

PlatformRoleIds == {"role1", "role2"}

\* what a request of sign_in may end with: a parsed response, or one of the
\* exceptions the handlers of sign_in tell apart
Raises == {"AlreadySignedError", "HTTPStatusError", "Exception"}

\* EndfieldAttendanceInfoResponse: code, and data (absent, or its hasToday)
InfoResponses ==
    [code : {0, 1}, data : {"None", "hasToday", "notToday"}]

\* EndfieldAttendanceRecordResponse: code, and data (absent, without
\* records, with records)
RecordResponses ==
    [code : {0, 1}, data : {"None", "empty", "records"}]

\* EndfieldSignResultResponse: code, and data (absent or present)
SignResponses ==
    [code : {0, 1}, data : {"None", "awards"}]

\* the locals of sign_in when it has logged its start
SignInStart(game_name, platform_roleid, user) ==
    [pc |-> "lookup", game_name |-> game_name,
     platform_roleid |-> platform_roleid, user |-> user,
     info |-> None, posts |-> 0, reply |-> "None"]

\* return of sign_in with this text after sign_title (or UID_HINT)
Reply(a, text) == [a EXCEPT !.pc = "returned", !.reply = text]

\* the three handlers that close the try block of sign_in
Handled(a, exception) ==
    CASE exception = "AlreadySignedError" -> Reply(a, "already_signed")
      [] exception = "HTTPStatusError" -> Reply(a, "request_failed")
      [] OTHER -> Reply(a, "sign_error")

\* BeyondUser.get_user_only_by_roleid: no user, return UID_HINT
SignInLookup ==
    /\ attend.pc = "lookup"
    /\ attend' = IF attend.user THEN [attend EXCEPT !.pc = "login"]
                 ELSE Reply(attend, "UID_HINT")
    /\ UNCHANGED <<mergeVars, fetch, syncVars, pityVars, restVars, login, subs>>

\* initialize and login_by_token return; the GET of get_attendance_info is
\* sent
SignInLogin ==
    /\ attend.pc = "login"
    /\ attend' = [attend EXCEPT !.pc = "info"]
    /\ UNCHANGED <<mergeVars, fetch, syncVars, pityVars, restVars, login, subs>>

\* initialize or login_by_token raises: they stand before the try block and
\* the exception leaves sign_in
SignInLoginRaise ==
    /\ attend.pc = "login"
    /\ attend' = [attend EXCEPT !.pc = "raised"]
    /\ UNCHANGED <<mergeVars, fetch, syncVars, pityVars, restVars, login, subs>>

\* faulty variant: hasToday is not looked at
AfterInfoAlwaysSign(info) ==
    IF info.code # 0 THEN "info_failed" ELSE "sign"

\* the branch sign_in takes on the attendance info
AfterInfo(info) ==
    IF info.code # 0 THEN "info_failed"
    ELSE IF info.data # "None" /\ info.data = "hasToday" THEN "record"
    ELSE "sign"

\* get_attendance_info returns or raises; on "sign" the POST of
\* do_attendance is sent, on "record" the GET of get_attendance_record
InfoResponse ==
    /\ attend.pc = "info"
    /\ \/ \E e \in Raises : attend' = Handled(attend, e)
       \/ \E info \in InfoResponses :
             LET a == [attend EXCEPT !.info = info] IN
             attend' = CASE AfterInfo(info) = "info_failed" ->
                              Reply(a, "info_failed")
                         [] AfterInfo(info) = "record" ->
                              [a EXCEPT !.pc = "record"]
                         [] OTHER ->
                              [a EXCEPT !.pc = "sign", !.posts = @ + 1]
    /\ UNCHANGED <<mergeVars, fetch, syncVars, pityVars, restVars, login, subs>>

\* get_attendance_record returns or raises (inner try)
RecordResponse ==
    /\ attend.pc = "record"
    /\ \/ attend' = Reply(attend, "already_signed")
       \/ attend' = Reply(attend, "record_failed")
       \/ \E r \in RecordResponses :
             attend' = IF r.code = 0 /\ r.data = "records"
                       THEN Reply(attend, "already_signed_awards")
                       ELSE Reply(attend, "already_signed")
    /\ UNCHANGED <<mergeVars, fetch, syncVars, pityVars, restVars, login, subs>>

\* do_attendance returns or raises
SignResponse ==
    /\ attend.pc = "sign"
    /\ \/ \E e \in Raises : attend' = Handled(attend, e)
       \/ \E r \in SignResponses :
             attend' = IF r.code # 0 THEN Reply(attend, "sign_failed")
                       ELSE IF r.data # "None" THEN Reply(attend, "signed_awards")
                       ELSE Reply(attend, "signed")
    /\ UNCHANGED <<mergeVars, fetch, syncVars, pityVars, restVars, login, subs>>

SignInInit ==
    /\ MergeIdle
    /\ fetch = None
    /\ SyncIdle
    /\ PityIdle
    /\ RestIdle
    /\ login = None
    /\ subs = None
    /\ \E g \in GameNames, r \in PlatformRoleIds, user \in BOOLEAN :
          attend = SignInStart(g, r, user)

SignInNext ==
    \/ SignInLookup
    \/ SignInLogin
    \/ SignInLoginRaise
    \/ InfoResponse
    \/ RecordResponse
    \/ SignResponse

SpecSignIn == SignInInit /\ [][SignInNext]_vars

\* the replies that say the player has signed in today ("今日已签到！")
AlreadySignedReplies == {"already_signed", "already_signed_awards"}

\* C35 as stated: the POST is sent at most once per call and only after the
\* info request succeeded with code 0 and reported today as not yet signed;
\* when the info reports today as signed no POST is sent and the reply says
\* that the player has already signed in today.
C35_SignOnceWhenUnsigned ==
    /\ attend.posts <= 1
    /\ attend.posts = 1 =>
          (attend.info # None /\ attend.info.code = 0
              /\ attend.info.data = "notToday")
    /\ (attend.info # None /\ attend.info.code = 0
          /\ attend.info.data = "hasToday") =>
          /\ attend.posts = 0
          /\ attend.pc = "returned" => attend.reply \in AlreadySignedReplies

\* C35 amended: the POST is sent at most once per call and only after the
\* info request succeeded with code 0 and did not report today as signed
\* (hasToday false, or no data); when the info reports today as signed no
\* POST is sent and the reply says that the player has already signed in
\* today, or, when the request for the attendance record fails, that the
\* record could not be fetched.
C35_SignOnceUnlessSigned ==
    /\ attend.posts <= 1
    /\ attend.posts = 1 =>
          (attend.info # None /\ attend.info.code = 0
              /\ attend.info.data # "hasToday")
    /\ (attend.info # None /\ attend.info.code = 0
          /\ attend.info.data = "hasToday") =>
          /\ attend.posts = 0
          /\ attend.pc = "returned" =>
                attend.reply \in AlreadySignedReplies \cup {"record_failed"}

\* C35 witness: the info reported today as signed, the record request
\* failed, and the call returned without a POST.
C35_Witness ==
    /\ attend.pc = "returned"
    /\ attend.info # None
    /\ attend.info.code = 0
    /\ attend.info.data = "hasToday"
    /\ attend.posts = 0
    /\ attend.reply = "record_failed"

----------------------------------------------------------------------------
(* SpecSubs: the handlers sub_ann_ and unsub_ann_ of the announcement      *)
(* subscription. Each command starts a handler task; the tasks share one   *)
(* event loop and take turns at their awaits (get_subscribe,               *)
(* add_subscribe, delete_subscribe). subs.list is the list                 *)
(* gs_subscribe.get_subscribe(task_name_ann) returns, one group_id per     *)
(* entry.                                                                   *)

\* the handler tasks that may run at a time
Handlers == {1, 2}

\* ev.group_id of a command sent in a group
Groups == {"group1", "group2"}

\* ev.group_id of a command sent in a private chat (None)
NoGroup == "None"

HandlerIdle == [pc |-> "idle", group |-> NoGroup, reply |-> "None"]

\* the handler returns await bot.send(text)
Sent(text) == [HandlerIdle EXCEPT !.reply = text]

\* for subscribe in data: if subscribe.group_id == ev.group_id
Subscribed(data, group) == \E i \in 1..Len(data) : data[i] = group

\* the entries of a list that are not of this group
NotOf(list, group) == SelectSeq(list, LAMBDA g : g # group)

\* the command arrives: ev.group_id is None, or get_subscribe is awaited
SubAnnStart(h) ==
    /\ subs.h[h].pc = "idle"
    /\ \E group \in Groups \cup {NoGroup} :
          subs' = [subs EXCEPT !.h[h] =
                      IF group = NoGroup THEN Sent("group_only")
                      ELSE [pc |-> "sub_get", group |-> group, reply |-> "None"]]
    /\ UNCHANGED <<mergeVars, fetch, syncVars, pityVars, restVars, login, attend>>

\* get_subscribe returns: an entry of the group ends the handler, otherwise
\* add_subscribe is awaited
SubAnnChecked(h) ==
    /\ subs.h[h].pc = "sub_get"
    /\ subs' = [subs EXCEPT !.h[h] =
                   IF Subscribed(subs.list, subs.h[h].group)
                   THEN Sent("already_subscribed")
                   ELSE [@ EXCEPT !.pc = "sub_add"]]
    /\ UNCHANGED <<mergeVars, fetch, syncVars, pityVars, restVars, login, attend>>

\* add_subscribe("session", ...) returns: the library has added an entry of
\* the group, or has updated the entry of the group it found
SubAnnAdd(h) ==
    /\ subs.h[h].pc = "sub_add"
    /\ \/ subs' = [subs EXCEPT !.list = Append(@, subs.h[h].group),
                               !.h[h] = Sent("subscribed")]
       \/ /\ Subscribed(subs.list, subs.h[h].group)
          /\ subs' = [subs EXCEPT !.h[h] = Sent("subscribed")]
    /\ UNCHANGED <<mergeVars, fetch, syncVars, pityVars, restVars, login, attend>>

\* the command arrives: ev.group_id is None, or get_subscribe is awaited
UnsubAnnStart(h) ==
    /\ subs.h[h].pc = "idle"
    /\ \E group \in Groups \cup {NoGroup} :
          subs' = [subs EXCEPT !.h[h] =
                      IF group = NoGroup THEN Sent("group_only")
                      ELSE [pc |-> "unsub_get", group |-> group, reply |-> "None"]]
    /\ UNCHANGED <<mergeVars, fetch, syncVars, pityVars, restVars, login, attend>>

\* get_subscribe returns: with an entry of the group delete_subscribe is
\* awaited, otherwise the handler ends
UnsubAnnChecked(h) ==
    /\ subs.h[h].pc = "unsub_get"
    /\ subs' = [subs EXCEPT !.h[h] =
                   IF Subscribed(subs.list, subs.h[h].group)
                   THEN [@ EXCEPT !.pc = "unsub_delete"]
                   ELSE Sent("never_subscribed")]
    /\ UNCHANGED <<mergeVars, fetch, syncVars, pityVars, restVars, login, attend>>

\* delete_subscribe("session", task_name_ann, ev) returns: the entries of
\* the group are gone
UnsubAnnDelete(h) ==
    /\ subs.h[h].pc = "unsub_delete"
    /\ subs' = [subs EXCEPT !.list = NotOf(@, subs.h[h].group),
                            !.h[h] = Sent("unsubscribed")]
    /\ UNCHANGED <<mergeVars, fetch, syncVars, pityVars, restVars, login, attend>>

SubsInit ==
    /\ MergeIdle
    /\ fetch = None
    /\ SyncIdle
    /\ PityIdle
    /\ RestIdle
    /\ login = None
    /\ attend = None
    /\ subs = [list |-> <<>>, h |-> [h \in Handlers |-> HandlerIdle]]

SubsNext ==
    \E h \in Handlers :
        \/ SubAnnStart(h)
        \/ SubAnnChecked(h)
        \/ SubAnnAdd(h)
        \/ UnsubAnnStart(h)
        \/ UnsubAnnChecked(h)
        \/ UnsubAnnDelete(h)

SpecSubs == SubsInit /\ [][SubsNext]_vars

\* C36: after any sequence of subscribe and unsubscribe commands, two
\* subscribe commands of one group whose handlers interleave between the
\* check and the add included, the subscription list holds at most one
\* entry of each group.
C36_OneSubscriptionPerGroup ==
    \A group \in Groups : Len(SelectSeq(subs.list, LAMBDA g : g = group)) <= 1

====
